---- MODULE Spec2Model ----
(***************************************************************************)
(* A model of the IBKR report processor (map2.py): the period resolver,    *)
(* the three-strategy tabular engine, the narrative engine, the schema     *)
(* mapper and the CSV emitter, as run by DataProcessor.process_pdf_pair.   *)
(*                                                                         *)
(* Python strings that the code takes apart (the date prefix, numeric      *)
(* tokens, metric values) are sequences of one-character strings.  Names   *)
(* the code only compares as wholes (metric names, products, month         *)
(* abbreviations, error messages) are TLA+ strings.  What a regular        *)
(* expression or the PDF library returns for a document is part of the     *)
(* document's description; everything the code does with it is modelled.   *)
(***************************************************************************)
EXTENDS Integers, Sequences, FiniteSets, TLC

(***************************************************************************)
(* Bounds of the model.                                                    *)
(***************************************************************************)
\* the largest number of numeric tokens on a modelled table row
MaxTokens == 9
\* the largest number of metric rows in a modelled document
MaxRows == 6

(***************************************************************************)
(* Config                                                                  *)
(***************************************************************************)
FINAL_CSV_COLUMNS ==
  << "ACCOUNTS.TOTAL", "ACCOUNTS.NETNEW", "DARTS.TOTAL", "DARTS.CLEARED",
     "DARTS.CLEAREDAVG", "TRADING.OPTIONS", "TRADING.FUTURES",
     "TRADING.STOCKSHARES", "ACCOUNTLEVEL.EQUITY", "ACCOUNTLEVEL.FDIC",
     "ACCOUNTLEVEL.CREDITSATBROKER", "ACCOUNTLEVEL.CREDITSTOTAL",
     "ACCOUNTLEVEL.MARGINLOANS", "ACCOUNTLEVEL.CASH",
     "AVGCOMMISSION.STOCK", "AVGCOMMISSION.EQUITYOPTIONS",
     "AVGCOMMISSION.FUTURES", "AVGORDER.STOCK", "AVGORDER.EQUITYOPTIONS",
     "AVGORDER.FUTURES" >>

\* MAPPING_CONFIG: column -> source and source_name; a press_release
\* source_name is the pair (product, metric_type), a monthly_brokerage one
\* a metric name (held in "name", with "sub" unused).
MAPPING_CONFIG ==
  [ h \in { FINAL_CSV_COLUMNS[i] : i \in 1..Len(FINAL_CSV_COLUMNS) } |->
    CASE h = "ACCOUNTS.TOTAL" -> [source |-> "monthly_brokerage", name |-> "Total Accounts", sub |-> ""]
      [] h = "ACCOUNTS.NETNEW" -> [source |-> "monthly_brokerage", name |-> "Net New Accounts", sub |-> ""]
      [] h = "DARTS.TOTAL" -> [source |-> "monthly_brokerage", name |-> "Total Client DARTs", sub |-> ""]
      [] h = "DARTS.CLEARED" -> [source |-> "monthly_brokerage", name |-> "Cleared Client DARTs", sub |-> ""]
      [] h = "DARTS.CLEAREDAVG" -> [source |-> "monthly_brokerage", name |-> "Cleared Avg. DART per Account (Annualized)", sub |-> ""]
      [] h = "TRADING.OPTIONS" -> [source |-> "monthly_brokerage", name |-> "Options Contracts", sub |-> ""]
      [] h = "TRADING.FUTURES" -> [source |-> "monthly_brokerage", name |-> "Futures Contracts", sub |-> ""]
      [] h = "TRADING.STOCKSHARES" -> [source |-> "monthly_brokerage", name |-> "Stock Shares", sub |-> ""]
      [] h = "ACCOUNTLEVEL.EQUITY" -> [source |-> "monthly_brokerage", name |-> "Client Equity", sub |-> ""]
      [] h = "ACCOUNTLEVEL.FDIC" -> [source |-> "monthly_brokerage", name |-> "FDIC Program Client Credits", sub |-> ""]
      [] h = "ACCOUNTLEVEL.CREDITSATBROKER" -> [source |-> "monthly_brokerage", name |-> "Client Credits Held at Broker", sub |-> ""]
      [] h = "ACCOUNTLEVEL.CREDITSTOTAL" -> [source |-> "monthly_brokerage", name |-> "Client Credits", sub |-> ""]
      [] h = "ACCOUNTLEVEL.MARGINLOANS" -> [source |-> "monthly_brokerage", name |-> "Client Margin Loans", sub |-> ""]
      [] h = "ACCOUNTLEVEL.CASH" -> [source |-> "monthly_brokerage", name |-> "Cash as % of Assets", sub |-> ""]
      [] h = "AVGCOMMISSION.STOCK" -> [source |-> "press_release", name |-> "Stocks", sub |-> "Average Commission"]
      [] h = "AVGCOMMISSION.EQUITYOPTIONS" -> [source |-> "press_release", name |-> "Equity Options", sub |-> "Average Commission"]
      [] h = "AVGCOMMISSION.FUTURES" -> [source |-> "press_release", name |-> "Futures", sub |-> "Average Commission"]
      [] h = "AVGORDER.STOCK" -> [source |-> "press_release", name |-> "Stocks", sub |-> "Average Order Size"]
      [] h = "AVGORDER.EQUITYOPTIONS" -> [source |-> "press_release", name |-> "Equity Options", sub |-> "Average Order Size"]
      [] h = "AVGORDER.FUTURES" -> [source |-> "press_release", name |-> "Futures", sub |-> "Average Order Size"] ]

\* DESCRIPTIVE_HEADERS: column -> caption; a caption is four lines: the
\* source, the group, the item and the unit
DESCRIPTIVE_HEADERS ==
  [ h \in { FINAL_CSV_COLUMNS[i] : i \in 1..Len(FINAL_CSV_COLUMNS) } |->
    CASE h = "ACCOUNTS.TOTAL" -> << "From Monthly Metrics:", "Accounts:", "Total Accounts:", "Thousands" >>
      [] h = "ACCOUNTS.NETNEW" -> << "From Monthly Metrics:", "Accounts:", "Net New Accounts:", "Thousands" >>
      [] h = "DARTS.TOTAL" -> << "From Monthly Metrics:", "DARTs:", "Total Client DARTs:", "Thousands" >>
      [] h = "DARTS.CLEARED" -> << "From Monthly Metrics:", "DARTs:", "Cleared Client DARTs:", "Thousands" >>
      [] h = "DARTS.CLEAREDAVG" -> << "From Monthly Metrics:", "DARTs:", "Cleared Avg. DART per Account:", "#" >>
      [] h = "TRADING.OPTIONS" -> << "From Monthly Metrics:", "Trading Volumes:", "Options Contracts:", "Thousands" >>
      [] h = "TRADING.FUTURES" -> << "From Monthly Metrics:", "Trading Volumes:", "Futures Contracts:", "Thousands" >>
      [] h = "TRADING.STOCKSHARES" -> << "From Monthly Metrics:", "Trading Volumes:", "Stock Shares:", "Thousands" >>
      [] h = "ACCOUNTLEVEL.EQUITY" -> << "From Monthly Metrics:", "Account Levels ($):", "Client Equity:", "$ Bln." >>
      [] h = "ACCOUNTLEVEL.FDIC" -> << "From Monthly Metrics:", "Account Levels ($):", "FDIC Program Client Credits:", "$ Bln." >>
      [] h = "ACCOUNTLEVEL.CREDITSATBROKER" -> << "From Monthly Metrics:", "Account Levels ($):", "Client Credits Held at Broker:", "$ Bln." >>
      [] h = "ACCOUNTLEVEL.CREDITSTOTAL" -> << "From Monthly Metrics:", "Account Levels ($):", "Client Credits (Total):", "$ Bln." >>
      [] h = "ACCOUNTLEVEL.MARGINLOANS" -> << "From Monthly Metrics:", "Account Levels ($):", "Client Margin Loans:", "$ Bln." >>
      [] h = "ACCOUNTLEVEL.CASH" -> << "From Monthly Metrics:", "Account Levels ($):", "Cash as % of Assets:", "%" >>
      [] h = "AVGCOMMISSION.STOCK" -> << "From Press Release:", "Average Commission per Cleared Order:", "Stocks:", "$" >>
      [] h = "AVGCOMMISSION.EQUITYOPTIONS" -> << "From Press Release:", "Average Commission per Cleared Order:", "Equity Options:", "$" >>
      [] h = "AVGCOMMISSION.FUTURES" -> << "From Press Release:", "Average Commission per Cleared Order:", "Futures:", "$" >>
      [] h = "AVGORDER.STOCK" -> << "From Press Release:", "Average Order Size:", "Stocks:", "# shares" >>
      [] h = "AVGORDER.EQUITYOPTIONS" -> << "From Press Release:", "Average Order Size:", "Equity Options:", "# contracts" >>
      [] h = "AVGORDER.FUTURES" -> << "From Press Release:", "Average Order Size:", "Futures:", "# contracts" >> ]

\* MONTH_MAPPING.values(), in the order of the dictionary
VALID_MONTHS ==
  << "Jan", "Feb", "Mar", "Apr", "May", "Jun",
     "Jul", "Aug", "Sep", "Oct", "Nov", "Dec" >>

\* the absent value of an integer (None)
NoneInt == -1
\* the absent value of a string (None); like "", it is falsy
NoneStr == << >>

\* MONTH_MAPPING.get(n): the abbreviation of month n, "" for None
MONTH_MAPPING(n) == IF n \in 1..12 THEN VALID_MONTHS[n] ELSE ""

(***************************************************************************)
(* Strings and integers                                                    *)
(***************************************************************************)
Digit == { "0", "1", "2", "3", "4", "5", "6", "7", "8", "9" }

DigitVal(c) ==
  CASE c = "0" -> 0 [] c = "1" -> 1 [] c = "2" -> 2 [] c = "3" -> 3
    [] c = "4" -> 4 [] c = "5" -> 5 [] c = "6" -> 6 [] c = "7" -> 7
    [] c = "8" -> 8 [] c = "9" -> 9

DigitChar(d) ==
  CASE d = 0 -> "0" [] d = 1 -> "1" [] d = 2 -> "2" [] d = 3 -> "3"
    [] d = 4 -> "4" [] d = 5 -> "5" [] d = 6 -> "6" [] d = 7 -> "7"
    [] d = 8 -> "8" [] d = 9 -> "9"

\* str.isdigit(): non-empty and every character a digit
IsDigitStr(s) == Len(s) > 0 /\ \A i \in 1..Len(s) : s[i] \in Digit

\* int(s) of a digit string
RECURSIVE StrToInt(_)
StrToInt(s) ==
  IF Len(s) = 0 THEN 0
  ELSE 10 * StrToInt(SubSeq(s, 1, Len(s) - 1)) + DigitVal(s[Len(s)])

\* str(n) of a natural number
RECURSIVE IntToStr(_)
IntToStr(n) ==
  IF n < 10 THEN << DigitChar(n) >>
  ELSE Append(IntToStr(n \div 10), DigitChar(n % 10))

\* s with every character of the set cs removed
RECURSIVE RemoveChars(_, _)
RemoveChars(s, cs) ==
  IF Len(s) = 0 THEN << >>
  ELSE IF s[1] \in cs THEN RemoveChars(Tail(s), cs)
  ELSE << s[1] >> \o RemoveChars(Tail(s), cs)

\* clean_numeric_value: "" for a falsy value, else the value without $ and ,
\* (the tokens of the model hold no white space for strip() to remove)
clean_numeric_value(value_str) ==
  IF Len(value_str) = 0 THEN << >> ELSE RemoveChars(value_str, { "$", "," })

MinYear == 2015
MaxYear == 2030

\* a variant of validate_date_params that does not look at the year's range
validate_date_params_any_year(year, month_num) ==
  IF ~IsDigitStr(year) \/ month_num = NoneInt
    THEN << FALSE, "Year and month must be valid integers" >>
  ELSE IF ~(1 <= month_num /\ month_num <= 12)
    THEN << FALSE, "Month must be between 1 and 12" >>
  ELSE << TRUE, "" >>

\* validate_date_params: (valid, error message); int() of a year that is no
\* digit string or of a month that is None raises, which the function
\* catches
validate_date_params(year, month_num) ==
  IF ~IsDigitStr(year) \/ month_num = NoneInt
    THEN << FALSE, "Year and month must be valid integers" >>
  ELSE IF ~(MinYear <= StrToInt(year) /\ StrToInt(year) <= MaxYear)
    THEN << FALSE, "Year must be between 2015 and 2030" >>
  ELSE IF ~(1 <= month_num /\ month_num <= 12)
    THEN << FALSE, "Month must be between 1 and 12" >>
  ELSE << TRUE, "" >>

(***************************************************************************)
(* Documents                                                               *)
(*                                                                         *)
(* A document is what pdfplumber gives for it:                             *)
(*   envelope  "none" for a plain PDF file; for a file that starts with    *)
(*             the Java serialization magic bytes, "wrapped" when it holds *)
(*             a %PDF- header and an %%EOF marker, "no_pdf" when not       *)
(*   openable  pdfplumber.open succeeds on the PDF content                 *)
(*   throws    the strategies ("A", "B", "C") in whose body a call raises  *)
(*             an exception for this document                              *)
(*   npages    len(pdf.pages)                                              *)
(*   matches   the matches re.finditer yields over the lowered text for    *)
(*             the date patterns, pattern after pattern; a match is the    *)
(*             tuple of its groups, a group a token                        *)
(*   years     the digit strings of years that occur in the text           *)
(*   lines     the lines of the text (see Line)                            *)
(*   words     page 0's positioned words (see Words)                       *)
(*   tables    page 0's tables, rows of cells (see Cell)                   *)
(*   text      the text of all pages as tokens, each with the white space  *)
(*             that follows it (see Tk), read by the narrative patterns    *)
(***************************************************************************)

\* a token matched by a group: a digit string (d) or another word (w)
DigitsTok(s) == [d |-> s, w |-> ""]
WordTok(x) == [d |-> << >>, w |-> x]

\* group.isdigit() and len(group) == 4
IsYearTok(t) == IsDigitStr(t.d) /\ Len(t.d) = 4

MonthNames ==
  { "january", "february", "march", "april", "may", "june", "july", "august",
    "september", "october", "november", "december", "jan", "feb", "mar",
    "apr", "jun", "jul", "aug", "sep", "oct", "nov", "dec" }

month_name_to_num(x) ==
  CASE x \in { "january", "jan" } -> 1
    [] x \in { "february", "feb" } -> 2
    [] x \in { "march", "mar" } -> 3
    [] x \in { "april", "apr" } -> 4
    [] x = "may" -> 5
    [] x \in { "june", "jun" } -> 6
    [] x \in { "july", "jul" } -> 7
    [] x \in { "august", "aug" } -> 8
    [] x \in { "september", "sep" } -> 9
    [] x \in { "october", "oct" } -> 10
    [] x \in { "november", "nov" } -> 11
    [] x \in { "december", "dec" } -> 12
    [] OTHER -> NoneInt

\* The loop of extract_date_from_content from match i on; year is the local
\* variable of that name.  A match of one group only assigns year and
\* continues; a match of two groups returns when one group is a 4-digit
\* year and the other a month name.  After the last match the function
\* returns (None, None), whatever year holds.
RECURSIVE ExtractDateLoop(_, _, _)
ExtractDateLoop(matches, i, year) ==
  IF i > Len(matches) THEN << NoneInt, NoneInt >>
  ELSE
    LET groups == matches[i] IN
    IF Len(groups) = 1 THEN
      IF IsYearTok(groups[1])
      THEN ExtractDateLoop(matches, i + 1, StrToInt(groups[1].d))
      ELSE ExtractDateLoop(matches, i + 1, year)
    ELSE
      LET group1 == groups[1]
          group2 == groups[2]
      IN
      IF IsYearTok(group1) THEN
        IF group2.w \in MonthNames
        THEN << StrToInt(group1.d), month_name_to_num(group2.w) >>
        ELSE ExtractDateLoop(matches, i + 1, StrToInt(group1.d))
      ELSE IF IsYearTok(group2) THEN
        IF group1.w \in MonthNames
        THEN << StrToInt(group2.d), month_name_to_num(group1.w) >>
        ELSE ExtractDateLoop(matches, i + 1, StrToInt(group2.d))
      ELSE ExtractDateLoop(matches, i + 1, year)

\* extract_date_from_content(text): (year, month) or (None, None)
extract_date_from_content(doc) == ExtractDateLoop(doc.matches, 1, NoneInt)

(***************************************************************************)
(* A line of the text:                                                     *)
(*   parts   per white-space separated part, the month abbreviations it    *)
(*           contains                                                      *)
(*   blank   line.strip() is empty                                         *)
(*   digit   some character of the line is a digit                         *)
(*   nfind   len(re.findall(r'[\d,]+\.?\d*', line))                        *)
(*   hits    the metrics whose pattern of metric_patterns matches the      *)
(*           line (combined with the next line where the code does so)     *)
(*   nums    the parts of the combined line that match                     *)
(*           ^[\$]?[\d,]+\.?\d*$, in order, as written                     *)
(*   nown    how many of nums are parts of the line itself                 *)
(*   dart    the line contains "Cleared Avg. DART per Account" or          *)
(*           "Annualized"                                                  *)
(***************************************************************************)
\* month in line
MonthInLine(line, month) == \E i \in 1..Len(line.parts) : month \in line.parts[i]

\* the smallest index in 1..n satisfying P, 0 when there is none
FirstIndex(n, P(_)) ==
  IF \E i \in 1..n : P(i)
  THEN CHOOSE i \in 1..n : P(i) /\ \A j \in 1..(i - 1) : ~P(j)
  ELSE 0

Min(a, b) == IF a <= b THEN a ELSE b

\* detect_latest_month_from_data(text, year): the header line must hold Jan,
\* Feb, Mar and Aug; the first line without Jan, Feb or Mar that holds a
\* digit and at least 8 numeric matches gives month_order[:n][-1], the n-th
\* month (the twelfth for n > 12); None otherwise.
detect_latest_month_from_data(doc) ==
  LET lines == doc.lines
      IsHeader(i) == /\ \A m \in { "Jan", "Feb", "Mar" } : MonthInLine(lines[i], m)
                     /\ MonthInLine(lines[i], "Aug")
      IsData(i) == /\ ~ \E m \in { "Jan", "Feb", "Mar" } : MonthInLine(lines[i], m)
                   /\ lines[i].digit
                   /\ lines[i].nfind >= 8
      d == FirstIndex(Len(lines), IsData)
  IN IF FirstIndex(Len(lines), IsHeader) = 0 THEN NoneInt
     ELSE IF d = 0 THEN NoneInt
     ELSE Min(lines[d].nfind, 12)

(***************************************************************************)
(* extract_pdf_from_java_wrapper.  What the file system does is the        *)
(* outcome: "ok", "create_failed" (tempfile.mkstemp raises) or             *)
(* "write_failed" (mkstemp has made the file, writing the content raises). *)
(* The result is the path to open ("temp" or "original") and whether a     *)
(* temporary file is left on disk by the function.                         *)
(***************************************************************************)
WrapperOutcomes(doc) ==
  IF doc.envelope = "wrapped" THEN { "ok", "create_failed", "write_failed" }
  ELSE { "ok" }

extract_pdf_from_java_wrapper(doc, outcome) ==
  IF doc.envelope # "wrapped" THEN [path |-> "original", file |-> FALSE]
  ELSE IF outcome = "ok" THEN [path |-> "temp", file |-> TRUE]
  ELSE IF outcome = "write_failed" THEN [path |-> "original", file |-> TRUE]
  ELSE [path |-> "original", file |-> FALSE]

\* what pdfplumber.open may do with the file itself: a plain file opens as
\* described; an enveloped file opens at best when its PDF content does
RawOpen(doc) ==
  IF doc.envelope = "none" THEN { doc.openable } ELSE { doc.openable, FALSE }

\* what pdfplumber.open may do with the path the wrapper returned
CleanOpen(doc, path) == IF path = "temp" THEN { doc.openable } ELSE RawOpen(doc)

(***************************************************************************)
(* Extraction results: a Python dict is a function from its keys.  An      *)
(* error result is the dict {"Error": message}.                            *)
(***************************************************************************)
EmptyDict == [k \in {} |-> << >>]

Err(msg) == [k \in { "Error" } |-> << msg >>]

\* "Error" in result
HasError(result) == "Error" \in DOMAIN result

\* a variant of StrategyException that turns the exception into an empty
\* mapping
StrategyExceptionSwallowed(msg) == [k \in {} |-> << >>]

\* except Exception as e: return {"Error": ...} at the end of a strategy
StrategyException(msg) == Err(msg)

\* len(result)
DictLen(result) == Cardinality(DOMAIN result)

\* d[k] = v
Put(d, k, v) == [x \in DOMAIN d \cup { k } |-> IF x = k THEN v ELSE d[x]]

\* d.get(k, "")
Get(d, k) == IF k \in DOMAIN d THEN d[k] ELSE << >>

\* the metric names of MAPPING_CONFIG whose source is monthly_brokerage, in
\* the order of the dictionary
metric_source_names ==
  SelectSeq([i \in 1..Len(FINAL_CSV_COLUMNS) |-> MAPPING_CONFIG[FINAL_CSV_COLUMNS[i]]],
            LAMBDA c : c.source = "monthly_brokerage")

MetricNames == { metric_source_names[i].name : i \in 1..Len(metric_source_names) }

\* the keys of metric_patterns in _parse_using_text_extraction
metric_patterns ==
  { "Total Accounts", "Net New Accounts", "Total Client DARTs",
    "Cleared Client DARTs", "Options Contracts", "Futures Contracts",
    "Stock Shares", "Client Equity", "FDIC Program Client Credits",
    "Client Credits Held at Broker", "Client Credits", "Client Margin Loans",
    "Cash as % of Assets" }

DartName == "Cleared Avg. DART per Account (Annualized)"

\* the lowered words of a metric name that are longer than 3 characters
SigWords(metric_name) ==
  CASE metric_name = "Total Accounts" -> { "total", "accounts" }
    [] metric_name = "Net New Accounts" -> { "accounts" }
    [] metric_name = "Total Client DARTs" -> { "total", "client", "darts" }
    [] metric_name = "Cleared Client DARTs" -> { "cleared", "client", "darts" }
    [] metric_name = DartName -> { "cleared", "avg.", "dart", "account", "(annualized)" }
    [] metric_name = "Options Contracts" -> { "options", "contracts" }
    [] metric_name = "Futures Contracts" -> { "futures", "contracts" }
    [] metric_name = "Stock Shares" -> { "stock", "shares" }
    [] metric_name = "Client Equity" -> { "client", "equity" }
    [] metric_name = "FDIC Program Client Credits" -> { "fdic", "program", "client", "credits" }
    [] metric_name = "Client Credits Held at Broker" -> { "client", "credits", "held", "broker" }
    [] metric_name = "Client Credits" -> { "client", "credits" }
    [] metric_name = "Client Margin Loans" -> { "client", "margin", "loans" }
    [] metric_name = "Cash as % of Assets" -> { "cash", "assets" }

\* month_to_index: the 0-based data column of a month abbreviation
month_to_index(abbr) == FirstIndex(12, LAMBDA i : VALID_MONTHS[i] = abbr) - 1

\* the lines after the header that Strategy A looks at:
\* range(header_line_idx + 1, min(header_line_idx + 25, len(lines)))
HeaderWindow == 25

\* the first month of VALID_MONTHS that a header part contains, "" if none
PartMonth(part) ==
  LET k == FirstIndex(12, LAMBDA i : VALID_MONTHS[i] \in part)
  IN IF k = 0 THEN "" ELSE VALID_MONTHS[k]

\* the value Strategy A takes from a (combined) line: the numeric part at
\* the target index with $ and , removed, "" when there are too few parts
LineValue(line, target_month_idx) ==
  LET numeric_parts == [i \in 1..Len(line.nums) |-> RemoveChars(line.nums[i], { "$", "," })]
  IN IF Len(numeric_parts) > target_month_idx
     THEN clean_numeric_value(numeric_parts[target_month_idx + 1])
     ELSE << >>

\* one pass of the line loop of Strategy A: every pattern that matches and
\* whose metric is not yet found takes the line's value; then the special
\* rule for the annualized DART metric
TextLineStep(extracted_data, line, target_month_idx) ==
  IF line.blank THEN extracted_data
  ELSE
    LET value == LineValue(line, target_month_idx)
        found == IF value = << >> THEN {}
                 ELSE (line.hits \cap metric_patterns) \ DOMAIN extracted_data
        dart == IF line.dart /\ DartName \notin DOMAIN extracted_data /\ value # << >>
                THEN { DartName } ELSE {}
    IN [m \in DOMAIN extracted_data \cup found \cup dart |->
          IF m \in DOMAIN extracted_data THEN extracted_data[m] ELSE value]

RECURSIVE TextLines(_, _, _, _, _)
TextLines(extracted_data, lines, line_idx, last, target_month_idx) ==
  IF line_idx > last THEN extracted_data
  ELSE TextLines(TextLineStep(extracted_data, lines[line_idx], target_month_idx),
                 lines, line_idx + 1, last, target_month_idx)

\* Strategy 1: _parse_using_text_extraction
parse_using_text_extraction(doc, target_year, target_month_abbr) ==
  LET lines == doc.lines
      IsHeader(i) == /\ \A m \in { "Jan", "Feb", "Mar" } : MonthInLine(lines[i], m)
                     /\ MonthInLine(lines[i], target_month_abbr)
      header_line_idx == FirstIndex(Len(lines), IsHeader)
      header_parts == lines[header_line_idx].parts
      target_month_found ==
        \E i \in 1..Len(header_parts) : PartMonth(header_parts[i]) = target_month_abbr
      target_month_idx == month_to_index(target_month_abbr)
  IN
  IF "A" \in doc.throws
    THEN StrategyException("Text extraction failed")
  ELSE IF \A i \in 1..Len(lines) : lines[i].blank
    THEN Err("No text extracted from PDF")
  ELSE IF target_year \notin doc.years
    THEN Err("Target year not found in PDF")
  ELSE IF header_line_idx = 0
    THEN Err("Could not find header line")
  ELSE IF ~target_month_found
    THEN Err("Could not locate month in header")
  ELSE IF target_month_idx = -1
    THEN Err("Unsupported month")
  ELSE TextLines(EmptyDict, lines, header_line_idx + 1,
                 Min(header_line_idx + HeaderWindow - 1, Len(lines)),
                 target_month_idx)

(***************************************************************************)
(* The positioned words of page 0, as Strategy B reads them:               *)
(*   n        the number of words                                          *)
(*   years    the year strings contained in some word                      *)
(*   headers  the texts of the words that are month abbreviations and lie  *)
(*            no more than 15 above the year word, sorted by x0            *)
(*   rows     the rows (words grouped by rounded top), in order of first   *)
(*            appearance; a row has                                        *)
(*              sig   the metric words its lowered text contains           *)
(*              band  per header i, the texts of its numeric-shaped words  *)
(*                    with x0 in [headers[i].x0 - 8, headers[i+1].x0 - 8)  *)
(***************************************************************************)
\* a variant of NamesMatching that files a value under the matched word
NamesMatchingWords(sig) == UNION { SigWords(m) \cap sig : m \in MetricNames }

\* the metric names a text matches by one of their significant words
NamesMatching(sig) == { m \in MetricNames : SigWords(m) \cap sig # {} }

\* one row of Strategy B: every matching metric takes the first numeric
\* word of the target band (a later row overwrites an earlier one)
CoordRowStep(extracted_data, row, col) ==
  LET numeric_words == row.band[col]
      value == IF Len(numeric_words) > 0 THEN clean_numeric_value(numeric_words[1]) ELSE << >>
      found == IF value = << >> THEN {} ELSE NamesMatching(row.sig)
  IN [m \in DOMAIN extracted_data \cup found |->
        IF m \in found THEN value ELSE extracted_data[m]]

RECURSIVE CoordRows(_, _, _, _)
CoordRows(extracted_data, rows, i, col) ==
  IF i > Len(rows) THEN extracted_data
  ELSE CoordRows(CoordRowStep(extracted_data, rows[i], col), rows, i + 1, col)

\* Strategy 2: _parse_using_coordinates
parse_using_coordinates(doc, target_year, target_month_abbr) ==
  LET words == doc.words
      col == FirstIndex(Len(words.headers), LAMBDA i : words.headers[i] = target_month_abbr)
  IN
  IF "B" \in doc.throws
    THEN StrategyException("Coordinate extraction failed")
  ELSE IF words.n = 0
    THEN Err("No words extracted from PDF")
  ELSE IF target_year \notin words.years
    THEN Err("Year not found in word coordinates")
  ELSE IF Len(words.headers) < 3
    THEN Err("Insufficient month headers found")
  ELSE IF col = 0
    THEN Err("Could not find column boundaries")
  ELSE CoordRows(EmptyDict, words.rows, 1, col)

(***************************************************************************)
(* A cell of a table (None or a string):                                   *)
(*   empty   the cell is None or ""                                        *)
(*   months  the month abbreviations its text contains                     *)
(*   sig     the metric words its lowered text contains                    *)
(*   val     its text, as a value                                          *)
(***************************************************************************)
\* re.match(r'^\d+\.?\d*$', s)
IsPlainNumber(s) ==
  \E n \in 1..Len(s) :
    /\ \A i \in 1..n : s[i] \in Digit
    /\ \/ n = Len(s)
       \/ /\ s[n + 1] = "."
          /\ \A i \in (n + 2)..Len(s) : s[i] \in Digit

\* one data row of a table in Strategy C
TableRowStep(extracted_data, row, target_month_col) ==
  IF Len(row) <= target_month_col - 1 THEN extracted_data
  ELSE IF row[1].empty \/ row[target_month_col].empty THEN extracted_data
  ELSE
    LET clean_value == clean_numeric_value(row[target_month_col].val)
        found == IF clean_value # << >> /\ IsPlainNumber(clean_value)
                 THEN NamesMatching(row[1].sig) ELSE {}
    IN [m \in DOMAIN extracted_data \cup found |->
          IF m \in found THEN clean_value ELSE extracted_data[m]]

RECURSIVE TableRows(_, _, _, _)
TableRows(extracted_data, table, row_idx, target_month_col) ==
  IF row_idx > Len(table) THEN extracted_data
  ELSE TableRows(TableRowStep(extracted_data, table[row_idx], target_month_col),
                 table, row_idx + 1, target_month_col)

\* a variant of TableStep that reads the last column of the header row when
\* no cell of it holds the target month
TableStepDefaultColumn(extracted_data, table, target_month_abbr) ==
  LET HasMonth(r) == \E c \in 1..Len(table[r]) :
                        ~table[r][c].empty /\ table[r][c].months # {}
      header_row_idx == FirstIndex(Len(table), HasMonth)
      found_col ==
        IF header_row_idx = 0 THEN 0
        ELSE FirstIndex(Len(table[header_row_idx]),
                        LAMBDA c : /\ ~table[header_row_idx][c].empty
                                   /\ target_month_abbr \in table[header_row_idx][c].months)
      target_month_col ==
        IF header_row_idx # 0 /\ found_col = 0 THEN Len(table[header_row_idx]) ELSE found_col
  IN IF Len(table) < 2 THEN extracted_data
     ELSE IF header_row_idx = 0 \/ target_month_col = 0 THEN extracted_data
     ELSE TableRows(extracted_data, table, header_row_idx + 1, target_month_col)

\* one table of Strategy C: the header row is the first row with a cell
\* that contains a month abbreviation, the target column the first cell of
\* that row that contains the target abbreviation
TableStep(extracted_data, table, target_month_abbr) ==
  LET HasMonth(r) == \E c \in 1..Len(table[r]) :
                        ~table[r][c].empty /\ table[r][c].months # {}
      header_row_idx == FirstIndex(Len(table), HasMonth)
      target_month_col ==
        IF header_row_idx = 0 THEN 0
        ELSE FirstIndex(Len(table[header_row_idx]),
                        LAMBDA c : /\ ~table[header_row_idx][c].empty
                                   /\ target_month_abbr \in table[header_row_idx][c].months)
  IN IF Len(table) < 2 THEN extracted_data
     ELSE IF header_row_idx = 0 \/ target_month_col = 0 THEN extracted_data
     ELSE TableRows(extracted_data, table, header_row_idx + 1, target_month_col)

RECURSIVE Tables(_, _, _, _)
Tables(extracted_data, tables, table_idx, target_month_abbr) ==
  IF table_idx > Len(tables) THEN extracted_data
  ELSE Tables(TableStep(extracted_data, tables[table_idx], target_month_abbr),
              tables, table_idx + 1, target_month_abbr)

\* Strategy 3: _parse_using_table_extraction
parse_using_table_extraction(doc, target_year, target_month_abbr) ==
  IF "C" \in doc.throws
    THEN StrategyException("Table extraction failed")
  ELSE IF Len(doc.tables) = 0
    THEN Err("No tables found in PDF")
  ELSE Tables(EmptyDict, doc.tables, 1, target_month_abbr)

(***************************************************************************)
(* The narrative engine                                                    *)
(***************************************************************************)
Products == << "Stocks", "Equity Options", "Futures" >>

StartsWith(s, p) == Len(s) >= Len(p) /\ SubSeq(s, 1, Len(p)) = p

\* s.replace(old, "")
RECURSIVE Remove(_, _)
Remove(s, old) ==
  IF Len(s) = 0 THEN << >>
  ELSE IF StartsWith(s, old) THEN Remove(SubSeq(s, Len(old) + 1, Len(s)), old)
  ELSE << s[1] >> \o Remove(Tail(s), old)

WhiteSpace == { " ", "\n" }

\* s.strip()
RECURSIVE Strip(_)
Strip(s) ==
  IF Len(s) = 0 THEN s
  ELSE IF s[1] \in WhiteSpace THEN Strip(Tail(s))
  ELSE IF s[Len(s)] \in WhiteSpace THEN Strip(SubSeq(s, 1, Len(s) - 1))
  ELSE s

SpaceShares == << " ", "s", "h", "a", "r", "e", "s" >>
SpaceContracts == << " ", "c", "o", "n", "t", "r", "a", "c", "t", "s" >>

\* re.IGNORECASE: the lower case of the capital letters
LowerCase ==
  [ A |-> "a", B |-> "b", C |-> "c", D |-> "d", E |-> "e",
    F |-> "f", G |-> "g", H |-> "h", I |-> "i", J |-> "j",
    K |-> "k", L |-> "l", M |-> "m", N |-> "n", O |-> "o",
    P |-> "p", Q |-> "q", R |-> "r", S |-> "s", T |-> "t",
    U |-> "u", V |-> "v", W |-> "w", X |-> "x", Y |-> "y",
    Z |-> "z" ]

Lower(c) == IF c \in DOMAIN LowerCase THEN LowerCase[c] ELSE c

LowerStr(s) == [i \in 1..Len(s) |-> Lower(s[i])]

EndsWith(s, p) == Len(s) >= Len(p) /\ SubSeq(s, Len(s) - Len(p) + 1, Len(s)) = p

\* the report text: its tokens, each with the white space that follows it
Tk(tok, sep) == [tok |-> tok, sep |-> sep]

\* the character classes of the narrative patterns, matched against a whole
\* token:  [\d,]+   [\d.]+   \d+(?:,\d+)*   \d+\.?\d*
WholeMatch(class, s) ==
  /\ Len(s) > 0
  /\ CASE class = "digits_commas" -> \A i \in 1..Len(s) : s[i] \in Digit \cup { "," }
       [] class = "digits_dots" -> \A i \in 1..Len(s) : s[i] \in Digit \cup { "." }
       [] class = "grouped_int" ->
            /\ \A i \in 1..Len(s) : s[i] \in Digit \cup { "," }
            /\ s[1] \in Digit /\ s[Len(s)] \in Digit
            /\ \A i \in 1..(Len(s) - 1) : ~(s[i] = "," /\ s[i + 1] = ",")
       [] class = "decimal" ->
            /\ \A i \in 1..Len(s) : s[i] \in Digit \cup { "." }
            /\ s[1] \in Digit
            /\ Cardinality({ i \in 1..Len(s) : s[i] = "." }) <= 1

\* the longest prefix of s made of characters of cs
RECURSIVE LongestPrefix(_, _)
LongestPrefix(s, cs) ==
  IF Len(s) = 0 \/ s[1] \notin cs THEN << >>
  ELSE << s[1] >> \o LongestPrefix(Tail(s), cs)

\* the group of \$([\d.]+) or \$(\d+\.?\d*) in a token, << >> without match
MoneyGroup(class, tok) ==
  IF Len(tok) = 0 \/ tok[1] # "$" THEN << >>
  ELSE LET rest == Tail(tok)
           int == LongestPrefix(rest, Digit)
           after == SubSeq(rest, Len(int) + 1, Len(rest))
       IN IF class = "digits_dots" THEN LongestPrefix(rest, Digit \cup { "." })
          ELSE IF Len(int) = 0 THEN << >>
          ELSE IF Len(after) > 0 /\ after[1] = "."
            THEN int \o << "." >> \o LongestPrefix(Tail(after), Digit)
          ELSE int

\* primary_patterns and backup_patterns: the words before the number (the
\* first one may end a longer token), the class of the number, the unit word
\* and the class of the amount
narrative_patterns(pattern_name, product) ==
  LET stocks == << "s", "t", "o", "c", "k", "s" >>
      equity == << "e", "q", "u", "i", "t", "y" >>
      options == << "o", "p", "t", "i", "o", "n", "s" >>
      futures == << "f", "u", "t", "u", "r", "e", "s" >>
      future == << "f", "u", "t", "u", "r", "e" >>
      and == << "a", "n", "d" >>
      shares == Tail(SpaceShares)
      contracts == Tail(SpaceContracts)
  IN IF pattern_name = "primary"
     THEN CASE product = "Stocks" ->
                 [words |-> << stocks >>, num |-> "digits_commas", unit |-> shares,
                  money |-> "digits_dots"]
            [] product = "Equity Options" ->
                 [words |-> << equity, options >>, num |-> "digits_dots",
                  unit |-> contracts, money |-> "digits_dots"]
            [] product = "Futures" ->
                 [words |-> << futures, and, future, options >>, num |-> "digits_dots",
                  unit |-> contracts, money |-> "digits_dots"]
     ELSE CASE product = "Stocks" ->
                 [words |-> << stocks >>, num |-> "grouped_int", unit |-> shares,
                  money |-> "decimal"]
            [] product = "Equity Options" ->
                 [words |-> << equity, options >>, num |-> "decimal",
                  unit |-> contracts, money |-> "decimal"]
            [] product = "Futures" ->
                 [words |-> << futures >>, num |-> "decimal", unit |-> contracts,
                  money |-> "decimal"]

\* the pattern matches with its first word in token i of the text
MatchAt(text, i, pattern) ==
  LET n == Len(pattern.words) IN
  /\ i + n + 2 <= Len(text)
  /\ EndsWith(LowerStr(text[i].tok), pattern.words[1])
  /\ \A k \in 2..n : LowerStr(text[i + k - 1].tok) = pattern.words[k]
  /\ WholeMatch(pattern.num, text[i + n].tok)
  /\ LowerStr(text[i + n + 1].tok) = pattern.unit
  /\ MoneyGroup(pattern.money, text[i + n + 2].tok) # << >>

\* re.search: the position of the leftmost match, 0 without match
Search(text, pattern) ==
  LET hits == { i \in 1..Len(text) : MatchAt(text, i, pattern) }
  IN IF hits = {} THEN 0 ELSE CHOOSE i \in hits : \A j \in hits : i <= j

\* the groups of the match at token i: the primary patterns keep the unit
\* word in group 1, the backup patterns do not
Groups(text, i, pattern_name, pattern) ==
  LET n == Len(pattern.words)
      number == text[i + n]
      amount == MoneyGroup(pattern.money, text[i + n + 2].tok)
  IN IF pattern_name = "primary"
       THEN << number.tok \o number.sep \o text[i + n + 1].tok, amount >>
     ELSE << number.tok, amount >>

\* a variant of ProductEntry that keeps the grouping commas
ProductEntryKeepsCommas(pattern_name, groups) ==
  IF pattern_name = "backup"
    THEN << groups[1], groups[2] >>
  ELSE << Strip(Remove(Remove(groups[1], SpaceShares), SpaceContracts)), Strip(groups[2]) >>

\* lines 699-708: the (order size, commission) pair made from the groups
ProductEntry(pattern_name, groups) ==
  IF pattern_name = "backup"
    THEN << Remove(groups[1], << "," >>), groups[2] >>
  ELSE << Strip(Remove(Remove(Remove(groups[1], SpaceShares), SpaceContracts), << "," >>)),
          Strip(groups[2]) >>

\* a variant of PressStep that searches for a product already found
PressStepOverwrites(data, text, pattern_name, product) ==
  LET pattern == narrative_patterns(pattern_name, product)
      i == Search(text, pattern)
  IN IF i = 0 THEN data
     ELSE Put(data, product, ProductEntry(pattern_name, Groups(text, i, pattern_name, pattern)))

\* lines 694-714: one pass of the inner loop
PressStep(data, text, pattern_name, product) ==
  IF product \in DOMAIN data THEN data
  ELSE LET pattern == narrative_patterns(pattern_name, product)
           i == Search(text, pattern)
       IN IF i = 0 THEN data
          ELSE Put(data, product,
                   ProductEntry(pattern_name, Groups(text, i, pattern_name, pattern)))

\* the passes of the two loops, in order: every product with its primary
\* pattern, then every product with its backup pattern
PressOrder ==
  << << "primary", Products[1] >>, << "primary", Products[2] >>, << "primary", Products[3] >>,
     << "backup", Products[1] >>, << "backup", Products[2] >>, << "backup", Products[3] >> >>

\* data after each of the first k passes, data before the first pass
\* included
RECURSIVE PressTrace(_, _)
PressTrace(text, k) ==
  IF k = 0 THEN << EmptyDict >>
  ELSE LET trace == PressTrace(text, k - 1)
       IN Append(trace, PressStep(trace[k], text, PressOrder[k][1], PressOrder[k][2]))

\* data after the first k passes
PressLoop(text, k) == PressTrace(text, k)[k + 1]

\* parse_press_release: {"Error": ...} or product -> (Average Order Size,
\* Average Commission)
parse_press_release(doc) ==
  IF ~doc.openable THEN Err("Press release parsing failed")
  ELSE IF \A i \in 1..Len(doc.lines) : doc.lines[i].blank
    THEN Err("No text extracted from press release PDF")
  ELSE PressLoop(doc.text, Len(PressOrder))

\* press_release_data.get(product, {}).get(metric_type, "")
PressGet(press_release_data, product, metric_type) ==
  IF product \notin DOMAIN press_release_data THEN << >>
  ELSE IF metric_type = "Average Order Size" THEN press_release_data[product][1]
  ELSE IF metric_type = "Average Commission" THEN press_release_data[product][2]
  ELSE << >>

(***************************************************************************)
(* The schema mapper                                                       *)
(***************************************************************************)
Columns == { FINAL_CSV_COLUMNS[i] : i \in 1..Len(FINAL_CSV_COLUMNS) }

\* a variant of MappedValue that reads the other sub-metric of the product
MappedValueOtherMetric(csv_header, brokerage_data, press_release_data) ==
  LET config == MAPPING_CONFIG[csv_header] IN
  IF config.source = "monthly_brokerage" THEN Get(brokerage_data, config.name)
  ELSE PressGet(press_release_data, config.name,
                IF config.sub = "Average Commission" THEN "Average Order Size"
                ELSE "Average Commission")

\* the value the direct mapping pass gives a column
MappedValue(csv_header, brokerage_data, press_release_data) ==
  LET config == MAPPING_CONFIG[csv_header] IN
  IF config.source = "monthly_brokerage" THEN Get(brokerage_data, config.name)
  ELSE PressGet(press_release_data, config.name, config.sub)

\* the entry missing_data gets for a column without a value:
\* f"Monthly: {source_name}" or f"Press Release: {product} {metric_type}"
MissingEntry(csv_header) ==
  LET config == MAPPING_CONFIG[csv_header] IN
  IF config.source = "monthly_brokerage" THEN << "Monthly", config.name >>
  ELSE << "Press Release", config.name, config.sub >>

\* a variant of MissingData that lists the columns empty after the derived
\* field was computed
MissingDataAfterDerived(brokerage_data, press_release_data) ==
  LET empty == SelectSeq(FINAL_CSV_COLUMNS,
                 LAMBDA h : /\ MappedValue(h, brokerage_data, press_release_data) = << >>
                            /\ h # "ACCOUNTLEVEL.CASH")
  IN [i \in 1..Len(empty) |-> MissingEntry(empty[i])]

\* missing_data after the direct mapping pass: the entries of the columns
\* without a value, in column order
MissingData(brokerage_data, press_release_data) ==
  LET empty == SelectSeq(FINAL_CSV_COLUMNS,
                 LAMBDA h : MappedValue(h, brokerage_data, press_release_data) = << >>)
  IN [i \in 1..Len(empty) |-> MissingEntry(empty[i])]

\* float(s.replace(',', '')): ok is FALSE where float raises ValueError;
\* the value is m / 10^f
ParseFloat(s) ==
  LET t == Remove(s, << "," >>)
      dots == { i \in 1..Len(t) : t[i] = "." }
      digits == RemoveChars(t, { "." })
  IN [ ok |-> /\ \A i \in 1..Len(t) : t[i] \in Digit \cup { "." }
              /\ Cardinality(dots) <= 1
              /\ Len(digits) >= 1,
       m |-> IF IsDigitStr(digits) THEN StrToInt(digits) ELSE 0,
       f |-> IF Cardinality(dots) = 1 THEN Len(t) - (CHOOSE i \in dots : TRUE) ELSE 0 ]

RECURSIVE Pow10(_)
Pow10(k) == IF k = 0 THEN 1 ELSE 10 * Pow10(k - 1)

\* the digits after the decimal point in "{:.11f}"
CashPlaces == 11

\* the first k decimals of r / d (0 <= r < d) and the remainder left
RECURSIVE Decimals(_, _, _)
Decimals(r, d, k) ==
  IF k = 0 THEN [ds |-> << >>, r |-> r]
  ELSE LET rest == Decimals((r * 10) % d, d, k - 1)
       IN [ds |-> << (r * 10) \div d >> \o rest.ds, r |-> rest.r]

\* a sequence of decimal digits plus one: the digits and the carry out
RECURSIVE AddOne(_)
AddOne(ds) ==
  IF Len(ds) = 0 THEN [ds |-> << >>, carry |-> 1]
  ELSE IF ds[Len(ds)] < 9
    THEN [ds |-> [ds EXCEPT ![Len(ds)] = @ + 1], carry |-> 0]
  ELSE LET up == AddOne(SubSeq(ds, 1, Len(ds) - 1))
       IN [ds |-> Append(up.ds, 0), carry |-> up.carry]

\* f"{n / d:.{places}f}": n / d rounded to `places` decimals, halves to even.
\* The code divides in binary floating point; the quotient here is exact.
\* The two agree on the Client Credits / Client Equity pairs of the modelled
\* documents (they can differ in the last decimal for quotients above 1000).
FormatFixed(n, d, places) ==
  LET whole == n \div d
      dec == Decimals(n % d, d, places + 1)
      kept == SubSeq(dec.ds, 1, places)
      next == dec.ds[places + 1]
      last == IF places = 0 THEN whole % 10 ELSE kept[places]
      up == \/ next > 5
            \/ next = 5 /\ dec.r > 0
            \/ next = 5 /\ dec.r = 0 /\ last % 2 = 1
      inc == IF up THEN AddOne(kept) ELSE [ds |-> kept, carry |-> 0]
  IN IntToStr(whole + inc.carry) \o << "." >> \o
     [i \in 1..places |-> DigitChar(inc.ds[i])]

\* a variant of WithCash that keeps a value the mapping pass put in the field
WithCashKeepsMapped(mapped) ==
  LET credits_total == mapped["ACCOUNTLEVEL.CREDITSTOTAL"]
      client_equity == mapped["ACCOUNTLEVEL.EQUITY"]
      credits_val == ParseFloat(credits_total)
      equity_val == ParseFloat(client_equity)
  IN IF /\ credits_total # << >> /\ client_equity # << >>
        /\ credits_val.ok /\ equity_val.ok
        /\ equity_val.m > 0
        /\ mapped["ACCOUNTLEVEL.CASH"] = << >>
     THEN [mapped EXCEPT !["ACCOUNTLEVEL.CASH"] =
             FormatFixed(credits_val.m * 100 * Pow10(equity_val.f),
                         equity_val.m * Pow10(credits_val.f), CashPlaces)]
     ELSE mapped

\* the record after the derived field: Cash as % of Assets is
\* credits / equity * 100 when both are set, parse as floats and the equity
\* is positive; otherwise the record is left as mapped
WithCash(mapped) ==
  LET credits_total == mapped["ACCOUNTLEVEL.CREDITSTOTAL"]
      client_equity == mapped["ACCOUNTLEVEL.EQUITY"]
      credits_val == ParseFloat(credits_total)
      equity_val == ParseFloat(client_equity)
  IN IF /\ credits_total # << >> /\ client_equity # << >>
        /\ credits_val.ok /\ equity_val.ok
        /\ equity_val.m > 0
     THEN [mapped EXCEPT !["ACCOUNTLEVEL.CASH"] =
             FormatFixed(credits_val.m * 100 * Pow10(equity_val.f),
                         equity_val.m * Pow10(credits_val.f), CashPlaces)]
     ELSE mapped

\* final_mapped_data of process_pdf_pair
FinalMappedData(brokerage_data, press_release_data) ==
  WithCash([h \in Columns |-> MappedValue(h, brokerage_data, press_release_data)])

(***************************************************************************)
(* The documents and hints of the model                                    *)
(***************************************************************************)
\* metric names in the order the modelled documents list them
RowNames ==
  << "Cash as % of Assets", "Stock Shares", "Client Equity", "Client Credits",
     "Total Accounts", DartName, "Options Contracts",
     "Futures Contracts", "Total Client DARTs", "Cleared Client DARTs",
     "Client Margin Loans", "FDIC Program Client Credits",
     "Client Credits Held at Broker", "Net New Accounts" >>

\* the numeric token of row r under month column k, as the document writes
\* it: with a currency sign and a grouping comma on odd rows, with a
\* decimal on even rows; the Client Equity row reports 0 for January
Token(r, k) ==
  IF r = 3 /\ k = 1 THEN << "0" >>
  ELSE IF r % 2 = 1 THEN << "$" >> \o IntToStr(r) \o << "," >> \o IntToStr(100 + k)
  ELSE IntToStr(10 * r + k) \o << ".", "5" >>

BlankLine ==
  [parts |-> << >>, blank |-> TRUE, digit |-> FALSE, nfind |-> 0,
   hits |-> {}, nums |-> << >>, nown |-> 0, dart |-> FALSE]

\* a header line whose parts are the given month abbreviations
HeaderLine(months) ==
  [parts |-> [i \in 1..Len(months) |-> { months[i] }], blank |-> FALSE,
   digit |-> FALSE, nfind |-> 0, hits |-> {}, nums |-> << >>, nown |-> 0,
   dart |-> FALSE]

\* the line of metric row r, of nrows rows, with ntok numeric tokens; the
\* code reads a line together with the next one when that one holds
\* "Annualized", so its numeric parts are followed by the next line's
MetricLine(r, nrows, ntok) ==
  [parts |-> << >>, blank |-> FALSE, digit |-> ntok > 0, nfind |-> ntok,
   hits |-> { RowNames[r] } \cap metric_patterns,
   nums |-> [k \in 1..ntok |-> Token(r, k)]
            \o (IF r + 1 <= nrows /\ RowNames[r + 1] = DartName
                THEN [k \in 1..ntok |-> Token(r + 1, k)] ELSE << >>),
   nown |-> ntok,
   dart |-> RowNames[r] = DartName]

\* a line of prose
ProseLine ==
  [parts |-> << >>, blank |-> FALSE, digit |-> TRUE, nfind |-> 1,
   hits |-> {}, nums |-> << >>, nown |-> 0, dart |-> FALSE]

\* the metric words the text of row r contains ("accounts" contains
\* "account", "darts" contains "dart")
RowSig(r) ==
  LET w == SigWords(RowNames[r])
  IN w \cup (IF "accounts" \in w THEN { "account" } ELSE {})
       \cup (IF "darts" \in w THEN { "dart" } ELSE {})

Y2025 == << "2", "0", "2", "5" >>

\* the date matches of a text, by kind
DateMatches(kind) ==
  CASE kind = "none" -> << >>
    [] kind = "year" -> << << DigitsTok(Y2025) >> >>
    [] kind = "year_month" ->
         << << DigitsTok(Y2025) >>, << WordTok("august"), DigitsTok(Y2025) >> >>
    [] kind = "word_year" ->
         << << WordTok("accounts"), DigitsTok(IntToStr(2500)) >>,
            << WordTok("metrics") >> >>
    [] kind = "late" ->
         << << WordTok("march"), DigitsTok(IntToStr(MaxYear + 1)) >> >>

\* the text of a brokerage document: a title line, a header line of the
\* first nhead months (none for nhead = 0) and nrows metric lines of ntok
\* tokens
TextLinesOf(nhead, nrows, ntok) ==
  << ProseLine >>
  \o (IF nhead > 0 THEN << HeaderLine(SubSeq(VALID_MONTHS, 1, nhead)) >> ELSE << >>)
  \o [r \in 1..nrows |-> MetricLine(r, nrows, ntok)]

NoWords == [n |-> 0, years |-> {}, headers |-> << >>, rows |-> << >>]

\* page 0's words: nhead month headers and nrows metric rows of ntok tokens
WordsOf(nhead, nrows, ntok) ==
  [n |-> 1 + nhead + nrows * (1 + ntok),
   years |-> { Y2025 },
   headers |-> SubSeq(VALID_MONTHS, 1, nhead),
   rows |-> [r \in 1..nrows |->
              [sig |-> RowSig(r),
               band |-> [k \in 1..nhead |->
                          IF k <= ntok THEN << Token(r, k) >> ELSE << >>]]]]

EmptyCell == [empty |-> TRUE, months |-> {}, sig |-> {}, val |-> << >>]
MonthCell(m) == [empty |-> FALSE, months |-> { m }, sig |-> {}, val |-> << >>]
NameCell(r) == [empty |-> FALSE, months |-> {}, sig |-> RowSig(r), val |-> << >>]
ValueCell(v) == [empty |-> FALSE, months |-> {}, sig |-> {}, val |-> v]

\* a table: a header row of nhead months after an empty corner cell, and
\* nrows metric rows of ntok values
TableOf(nhead, nrows, ntok) ==
  << << EmptyCell >> \o [k \in 1..nhead |-> MonthCell(VALID_MONTHS[k])] >>
  \o [r \in 1..nrows |->
       << NameCell(r) >> \o
       [k \in 1..nhead |-> IF k <= ntok THEN ValueCell(Token(r, k)) ELSE EmptyCell]]

\* the texts of the model: with the header of twelve months and too few
\* metric lines to be sufficient or MaxRows of them, without a header, and
\* with a header of the first six months
TextKinds ==
  { [nhead |-> 12, nrows |-> 3], [nhead |-> 12, nrows |-> MaxRows],
    [nhead |-> 0, nrows |-> MaxRows], [nhead |-> 6, nrows |-> MaxRows] }

DateKinds == { "none", "year", "year_month", "late" }

FullWords == WordsOf(12, MaxRows, MaxTokens)

WordKinds == { NoWords, WordsOf(6, MaxRows, MaxTokens), WordsOf(12, 2, MaxTokens), FullWords }

FullTables == << TableOf(12, MaxRows, MaxTokens) >>

TableKinds ==
  { << >>, << TableOf(6, MaxRows, MaxTokens) >>, << TableOf(12, 0, MaxTokens) >>,
    << TableOf(12, 2, MaxTokens) >>, FullTables }

BrokerageDoc(t, d, w, c) ==
  [envelope |-> "none", openable |-> TRUE, throws |-> {}, npages |-> 1,
   matches |-> DateMatches(d),
   years |-> IF d = "none" THEN {} ELSE { Y2025 },
   lines |-> TextLinesOf(t.nhead, t.nrows, MaxTokens),
   words |-> w, tables |-> c,
   text |-> << >>]

EmptyDocument ==
  [envelope |-> "none", openable |-> TRUE, throws |-> {}, npages |-> 1, matches |-> << >>, years |-> {},
   lines |-> << BlankLine >>, words |-> NoWords, tables |-> << >>,
   text |-> << >>]

\* brokerage files in a Java envelope: one whose strategies succeed, one
\* whose strategies all fail, one whose PDF content does not open and one
\* without PDF content
EnvelopedBrokerageDocs ==
  { [BrokerageDoc([nhead |-> 12, nrows |-> MaxRows], "year_month", FullWords, FullTables)
       EXCEPT !.envelope = "wrapped"],
    [BrokerageDoc([nhead |-> 0, nrows |-> MaxRows], "year_month", NoWords, << >>)
       EXCEPT !.envelope = "wrapped"],
    [EmptyDocument EXCEPT !.envelope = "wrapped", !.openable = FALSE],
    [EmptyDocument EXCEPT !.envelope = "no_pdf", !.openable = FALSE] }

\* brokerage documents on which the first, the first two or all three
\* strategies raise
ThrowingBrokerageDocs ==
  { [BrokerageDoc([nhead |-> 12, nrows |-> MaxRows], "year", FullWords, FullTables)
       EXCEPT !.throws = t] : t \in { { "A" }, { "A", "B" }, { "A", "B", "C" } } }

\* a brokerage document whose text has no line for Cash as % of Assets
NoCashRowDoc ==
  [BrokerageDoc([nhead |-> 12, nrows |-> MaxRows], "year", FullWords, FullTables)
     EXCEPT !.lines = SubSeq(@, 1, 2) \o SubSeq(@, 4, Len(@))]

BrokerageDocs ==
  { [EmptyDocument EXCEPT !.openable = FALSE],
    [EmptyDocument EXCEPT !.npages = 0],
    EmptyDocument }
  \cup { BrokerageDoc(t, "year", w, c) : t \in TextKinds, w \in WordKinds, c \in TableKinds }
  \cup { BrokerageDoc(t, d, FullWords, FullTables) : t \in TextKinds, d \in DateKinds }
  \cup EnvelopedBrokerageDocs
  \cup ThrowingBrokerageDocs
  \cup { NoCashRowDoc }

\* a press release that reports all three products in the primary phrasing
TextPrimaryAll ==
  << Tk(<< "S", "t", "o", "c", "k", "s" >>, << " " >>),
     Tk(<< "1", ",", "0", "2", "0" >>, << " " >>),
     Tk(<< "s", "h", "a", "r", "e", "s" >>, << " " >>),
     Tk(<< "$", "2", ".", "5" >>, << " " >>),
     Tk(<< "E", "q", "u", "i", "t", "y" >>, << " " >>),
     Tk(<< "O", "p", "t", "i", "o", "n", "s" >>, << " " >>),
     Tk(<< "6", ".", "1" >>, << " " >>),
     Tk(<< "c", "o", "n", "t", "r", "a", "c", "t", "s" >>, << " " >>),
     Tk(<< "$", "3", ".", "9" >>, << "\n" >>),
     Tk(<< "F", "u", "t", "u", "r", "e", "s" >>, << " " >>),
     Tk(<< "a", "n", "d" >>, << " " >>),
     Tk(<< "F", "u", "t", "u", "r", "e" >>, << " " >>),
     Tk(<< "O", "p", "t", "i", "o", "n", "s" >>, << " " >>),
     Tk(<< "3", ".", "2" >>, << " " >>),
     Tk(<< "c", "o", "n", "t", "r", "a", "c", "t", "s" >>, << " " >>),
     Tk(<< "$", "4", ".", "1" >>, << >>) >>

\* "Stocks 1,200,000 shares $0.85"
TextStocksOnly ==
  << Tk(<< "S", "t", "o", "c", "k", "s" >>, << " " >>),
     Tk(<< "1", ",", "2", "0", "0", ",", "0", "0", "0" >>, << " " >>),
     Tk(<< "s", "h", "a", "r", "e", "s" >>, << " " >>),
     Tk(<< "$", "0", ".", "8", "5" >>, << >>) >>

\* a press release without any product phrase
TextNoProducts ==
  << Tk(<< "I", "n", "t", "e", "r", "a", "c", "t", "i", "v", "e" >>, << " " >>),
     Tk(<< "B", "r", "o", "k", "e", "r", "s" >>, << " " >>),
     Tk(<< "r", "e", "p", "o", "r", "t", "s" >>, << >>) >>

\* futures in the table phrasing only, and stocks in capitals
TextFuturesTable ==
  << Tk(<< "F", "u", "t", "u", "r", "e", "s" >>, << " " >>),
     Tk(<< "9", ".", "9" >>, << " " >>),
     Tk(<< "c", "o", "n", "t", "r", "a", "c", "t", "s" >>, << " " >>),
     Tk(<< "$", "1", ".", "0" >>, << "\n" >>),
     Tk(<< "S", "T", "O", "C", "K", "S" >>, << " " >>),
     Tk(<< "1", ",", "2", "0", "0", ",", "0", "0", "0" >>, << " " >>),
     Tk(<< "s", "h", "a", "r", "e", "s" >>, << " " >>),
     Tk(<< "$", "0", ".", "8", "5" >>, << >>) >>

\* futures in both phrasings with different figures
TextFuturesTwice ==
  << Tk(<< "F", "u", "t", "u", "r", "e", "s" >>, << " " >>),
     Tk(<< "a", "n", "d" >>, << " " >>),
     Tk(<< "F", "u", "t", "u", "r", "e" >>, << " " >>),
     Tk(<< "O", "p", "t", "i", "o", "n", "s" >>, << " " >>),
     Tk(<< "3", ".", "2" >>, << " " >>),
     Tk(<< "c", "o", "n", "t", "r", "a", "c", "t", "s" >>, << " " >>),
     Tk(<< "$", "4", ".", "1" >>, << "\n" >>),
     Tk(<< "F", "u", "t", "u", "r", "e", "s" >>, << " " >>),
     Tk(<< "9", ".", "9" >>, << " " >>),
     Tk(<< "c", "o", "n", "t", "r", "a", "c", "t", "s" >>, << " " >>),
     Tk(<< "$", "1", ".", "0" >>, << >>) >>

PressDoc(date, text) ==
  [envelope |-> "none", openable |-> TRUE, throws |-> {}, npages |-> 1, matches |-> DateMatches(date),
   years |-> IF date = "none" THEN {} ELSE { Y2025 },
   lines |-> << ProseLine >>, words |-> NoWords, tables |-> << >>,
   text |-> text]

PressDocs ==
  { [EmptyDocument EXCEPT !.openable = FALSE], EmptyDocument }
  \cup { PressDoc("none", TextPrimaryAll),
         PressDoc("year_month", TextStocksOnly),
         PressDoc("year_month", TextNoProducts),
         PressDoc("year_month", TextFuturesTable),
         PressDoc("word_year", TextFuturesTwice),
         [PressDoc("year_month", TextPrimaryAll) EXCEPT !.envelope = "wrapped"],
         [EmptyDocument EXCEPT !.envelope = "wrapped", !.openable = FALSE] }

\* the six characters of year y and month m
Hint(y, m) == IntToStr(y) \o << DigitChar(m \div 10), DigitChar(m % 10) >>

\* the date prefixes handed to process_pdf_pair: none (None or ""), too
\* short, too long, with a character that is no digit, and six digits
Hints ==
  { << >>, Y2025, Hint(2025, 8) \o << "1" >>, << "2", "0", "2", "5", "-", "8" >> }
  \cup { Hint(y, m) : y \in { MinYear - 1, MinYear, 2025, MaxYear, MaxYear + 1 },
                       m \in { 0, 1, 8, 12, 13 } }

(***************************************************************************)
(* DataProcessor.process_pdf_pair, step by step                            *)
(***************************************************************************)
VARIABLES
  date_prefix,         \* the hint handed to process_pdf_pair
  bdoc,                \* the brokerage document
  pdoc,                \* the press-release document
  pc,                  \* the position of process_pdf_pair
  target_year,         \* a digit string, NoneStr while unset
  target_month_num,    \* an integer, NoneInt while unset
  opened,              \* the documents opened so far, with the purpose
  ran,                 \* the strategies run so far, each with its result
  brokerage_data,      \* the result of parse_monthly_brokerage_data
  press_release_data,  \* the result of parse_press_release
  final_mapped_data,   \* the canonical record, EmptyDict until built
  missing_data,        \* the entries of the columns the mapping pass found no value for
  csv_files,           \* the output artifacts written: file -> rows
  io_failed,           \* open() of the output file raised IOError
  ret,                 \* the return value: "none" while running
  temp_files,          \* the temporary files on disk, named by their call
  temp_file_created,   \* the local of parse_monthly_brokerage_data
  unwrapped,           \* the parse calls that made a temporary file
  tree,                \* the batch scan: directory -> the files in it
  scan_pc,             \* the position of find_and_process_all_reports
  roots,               \* the entries of the walk not yet visited
  root,                \* the directory being visited
  report_groups,       \* date prefix -> (report type -> path), of root
  pending,             \* the prefixes of report_groups not yet looked at
  processed_files,     \* the file pair keys of the pairs processed
  successful_processing, \* the number of pairs processed with success
  handed,              \* the calls of process_pdf_pair: directory, prefix
                       \* and return value
  outputs,             \* the artifacts in the working directory: the date
                       \* prefix in the name -> the pair whose record it holds
  scan_ret,            \* the return value of the scan, << >> while running
  mode,                \* the orchestrator: the workflow that was asked for
  env,                 \* what the steps of the workflow will meet
  orc_pc,              \* the step of the workflow to run next
  steps,               \* the steps run so far, each with its return value
  pdf_files,           \* the number of PDF files in the downloads directory
  pairs_ok,            \* the pairs map2.py has processed with success
  artifacts,           \* an IBKR_DATA_OUTPUT_*.csv is in the working directory
  orc_ret              \* the return value of the workflow, "none" while running

\* the variables of one call of process_pdf_pair
pair_vars ==
  << date_prefix, bdoc, pdoc, pc, target_year, target_month_num, opened, ran,
     brokerage_data, press_release_data, final_mapped_data, missing_data,
     csv_files, io_failed, ret, temp_files, temp_file_created, unwrapped >>

\* the variables of the batch scan
scan_vars ==
  << tree, scan_pc, roots, root, report_groups, pending, processed_files,
     successful_processing, handed, outputs, scan_ret >>

\* the variables of the orchestrator
orc_vars == << mode, env, orc_pc, steps, pdf_files, pairs_ok, artifacts, orc_ret >>

vars == << pair_vars, scan_vars, orc_vars >>

\* the temporary files and what is known of them
wrap_vars == << temp_files, temp_file_created, unwrapped >>

\* the value of a variable that holds no result yet
Unset == [k \in { "Unset" } |-> << >>]

\* no batch scan is running
ScanIdle ==
  /\ tree = << >>
  /\ scan_pc = "idle"
  /\ roots = << >>
  /\ root = ""
  /\ report_groups = << >>
  /\ pending = {}
  /\ processed_files = {}
  /\ successful_processing = 0
  /\ handed = << >>
  /\ outputs = << >>
  /\ scan_ret = << >>

\* no workflow of the orchestrator is running
OrcIdle ==
  /\ mode = "none"
  /\ env = << >>
  /\ orc_pc = "idle"
  /\ steps = << >>
  /\ pdf_files = 0
  /\ pairs_ok = 0
  /\ artifacts = FALSE
  /\ orc_ret = "none"

Init ==
  /\ ScanIdle
  /\ OrcIdle
  /\ date_prefix \in Hints
  /\ bdoc \in BrokerageDocs
  /\ pdoc \in PressDocs
  /\ pc = "start"
  /\ target_year = NoneStr
  /\ target_month_num = NoneInt
  /\ opened = << >>
  /\ ran = << >>
  /\ brokerage_data = Unset
  /\ press_release_data = Unset
  /\ final_mapped_data = EmptyDict
  /\ missing_data = << >>
  /\ csv_files = EmptyDict
  /\ io_failed = FALSE
  /\ ret = "none"
  /\ temp_files = {}
  /\ temp_file_created = FALSE
  /\ unwrapped = {}

\* Python truth of a year string and of an integer
TruthyStr(s) == s # NoneStr
TruthyInt(n) == n # NoneInt /\ n # 0

\* a variant of PeriodMissing that forgets the month
PeriodMissingYearOnly(year, month_num) == ~TruthyStr(year)

\* not target_year or not target_month_num
PeriodMissing(year, month_num) == ~TruthyStr(year) \/ ~TruthyInt(month_num)

\* the date of the file name: taken when the prefix is six digits
HintYear(prefix) ==
  IF Len(prefix) = 6 /\ IsDigitStr(prefix) THEN SubSeq(prefix, 1, 4) ELSE NoneStr

\* a variant of HintMonth that slices one character too few
HintMonthShortSlice(prefix) ==
  IF Len(prefix) = 6 /\ IsDigitStr(prefix) THEN StrToInt(SubSeq(prefix, 5, 5)) ELSE NoneInt

HintMonth(prefix) ==
  IF Len(prefix) = 6 /\ IsDigitStr(prefix) THEN StrToInt(SubSeq(prefix, 5, 6)) ELSE NoneInt

\* lines 765-777: the date of the file name
ResolveHint ==
  /\ pc = "start"
  /\ target_year' = HintYear(date_prefix)
  /\ target_month_num' = HintMonth(date_prefix)
  /\ pc' = IF PeriodMissing(target_year', target_month_num')
           THEN "fallback_brokerage" ELSE "validate"
  /\ UNCHANGED << scan_vars, orc_vars, date_prefix, bdoc, pdoc, opened, ran, brokerage_data,
                  press_release_data, final_mapped_data, missing_data,
                  csv_files, io_failed, ret >>
  /\ UNCHANGED wrap_vars

\* the year after the brokerage fallback
BrokerageFallbackYear(doc, year) ==
  LET fallback == extract_date_from_content(doc)
  IN IF doc.openable /\ TruthyInt(fallback[1]) THEN IntToStr(fallback[1]) ELSE year

\* the month after the brokerage fallback: the month found with the year,
\* or else the latest month of the table
BrokerageFallbackMonth(doc, month_num) ==
  LET fallback == extract_date_from_content(doc)
      detected_month == detect_latest_month_from_data(doc)
  IN IF doc.openable /\ TruthyInt(fallback[1])
     THEN IF ~TruthyInt(fallback[2])
          THEN IF TruthyInt(detected_month) THEN detected_month ELSE month_num
          ELSE fallback[2]
     ELSE month_num

\* lines 780-802: the date from the content of the brokerage document
FallbackBrokerage ==
  /\ pc = "fallback_brokerage"
  /\ opened' = Append(opened, << "brokerage", "date" >>)
  /\ \E raw_ok \in RawOpen(bdoc) :
       LET doc == [bdoc EXCEPT !.openable = raw_ok]
       IN /\ target_year' = BrokerageFallbackYear(doc, target_year)
          /\ target_month_num' = BrokerageFallbackMonth(doc, target_month_num)
  /\ pc' = IF PeriodMissing(target_year', target_month_num')
           THEN "fallback_press" ELSE "validate"
  /\ UNCHANGED << scan_vars, orc_vars, date_prefix, bdoc, pdoc, ran, brokerage_data,
                  press_release_data, final_mapped_data, missing_data,
                  csv_files, io_failed, ret >>
  /\ UNCHANGED wrap_vars

\* the year after the press-release fallback
PressFallbackYear(doc, year) ==
  LET fallback == extract_date_from_content(doc)
  IN IF doc.openable /\ TruthyInt(fallback[1]) /\ ~TruthyStr(year)
     THEN IntToStr(fallback[1]) ELSE year

\* the month after the press-release fallback
PressFallbackMonth(doc, month_num) ==
  LET fallback == extract_date_from_content(doc)
  IN IF doc.openable /\ TruthyInt(fallback[2]) /\ ~TruthyInt(month_num)
     THEN fallback[2] ELSE month_num

\* lines 804-821: the date from the content of the press release
FallbackPress ==
  /\ pc = "fallback_press"
  /\ opened' = Append(opened, << "press", "date" >>)
  /\ \E raw_ok \in RawOpen(pdoc) :
       LET doc == [pdoc EXCEPT !.openable = raw_ok]
       IN /\ target_year' = PressFallbackYear(doc, target_year)
          /\ target_month_num' = PressFallbackMonth(doc, target_month_num)
  /\ pc' = "validate"
  /\ UNCHANGED << scan_vars, orc_vars, date_prefix, bdoc, pdoc, ran, brokerage_data,
                  press_release_data, final_mapped_data, missing_data,
                  csv_files, io_failed, ret >>
  /\ UNCHANGED wrap_vars

\* lines 823-826: no year or no month: return False
PeriodUnresolved ==
  /\ pc = "validate"
  /\ PeriodMissing(target_year, target_month_num)
  /\ ret' = "False"
  /\ pc' = "done"
  /\ UNCHANGED << scan_vars, orc_vars, date_prefix, bdoc, pdoc, target_year, target_month_num,
                  opened, ran, brokerage_data, press_release_data,
                  final_mapped_data, missing_data, csv_files, io_failed >>
  /\ UNCHANGED wrap_vars

\* the error parse_monthly_brokerage_data returns before any strategy, or
\* Unset when the strategies are reached
EngineEntryError(doc, year, month_num) ==
  IF MONTH_MAPPING(month_num) = ""
    THEN Err("Invalid target month number")
  ELSE IF ~validate_date_params(year, month_num)[1]
    THEN Err(validate_date_params(year, month_num)[2])
  ELSE IF ~doc.openable
    THEN Err("PDF processing failed")
  ELSE IF doc.npages = 0
    THEN Err("PDF has no pages")
  ELSE Unset

\* the finally clause of a parse call: the temporary file is removed when
\* the call was given its path
Cleanup(files, created, call) == IF created THEN files \ { call } ELSE files

\* lines 322-345: the period is set; parse_monthly_brokerage_data starts,
\* unwraps the file and opens the document.  Where it returns at once, its
\* finally clause runs.
EngineEntry ==
  /\ pc = "validate"
  /\ ~PeriodMissing(target_year, target_month_num)
  /\ LET reached == MONTH_MAPPING(target_month_num) # ""
                      /\ validate_date_params(target_year, target_month_num)[1]
     IN IF ~reached
        THEN /\ brokerage_data' = EngineEntryError(bdoc, target_year, target_month_num)
             /\ pc' = "press"
             /\ UNCHANGED << opened, wrap_vars >>
        ELSE \E outcome \in WrapperOutcomes(bdoc) :
               LET clean == extract_pdf_from_java_wrapper(bdoc, outcome)
                   created == clean.path # "original"
                   made == IF clean.file THEN { "brokerage" } ELSE {}
               IN \E open_ok \in CleanOpen(bdoc, clean.path) :
                    LET e == EngineEntryError([bdoc EXCEPT !.openable = open_ok],
                                              target_year, target_month_num)
                    IN /\ opened' = Append(opened, << "brokerage", "parse" >>)
                       /\ unwrapped' = unwrapped \cup made
                       /\ temp_file_created' = created
                       /\ brokerage_data' = e
                       /\ IF e = Unset
                          THEN /\ pc' = "strategy_a"
                               /\ temp_files' = temp_files \cup made
                          ELSE /\ pc' = "press"
                               /\ temp_files' = Cleanup(temp_files \cup made, created, "brokerage")
  /\ UNCHANGED << scan_vars, orc_vars, date_prefix, bdoc, pdoc, target_year, target_month_num, ran,
                  press_release_data, final_mapped_data, missing_data,
                  csv_files, io_failed, ret >>

\* the least number of metrics that makes Strategy A or B sufficient
MinMetrics == 5

\* a variant of Sufficient that forgets the count of metrics
SufficientAny(result) == DOMAIN result # {} /\ ~HasError(result)

\* result and "Error" not in result and len(result) >= 5
Sufficient(result) ==
  DOMAIN result # {} /\ ~HasError(result) /\ DictLen(result) >= MinMetrics

\* a variant of Accepted that asks of Strategy 3 what is asked of 1 and 2
AcceptedNeedsFive(result) == Sufficient(result)

\* result and "Error" not in result
Accepted(result) == DOMAIN result # {} /\ ~HasError(result)

AllFailed == Err("All parsing strategies failed to extract sufficient data")

\* a variant of CascadeEnd that hands back whatever Strategy 3 returned
CascadeEndReturnsLast(result) == result

\* lines 367-371: the result of the cascade after Strategy 3
CascadeEnd(result) == IF Accepted(result) THEN result ELSE AllFailed

\* a variant of Rebind that keeps the metrics of the previous strategy
RebindMerged(previous, result) ==
  IF HasError(previous) \/ HasError(result) THEN result
  ELSE [m \in DOMAIN previous \cup DOMAIN result |->
          IF m \in DOMAIN previous THEN previous[m] ELSE result[m]]

\* lines 355 and 363: result = self._parse_using_...(...) binds the local
\* variable to the mapping of the next strategy
Rebind(previous, result) == result

\* lines 347-353: Strategy 1
StrategyA ==
  /\ pc = "strategy_a"
  /\ LET result == parse_using_text_extraction(bdoc, target_year,
                                               MONTH_MAPPING(target_month_num))
     IN /\ ran' = Append(ran, << "A", result >>)
        /\ IF Sufficient(result)
           THEN /\ brokerage_data' = result /\ pc' = "press"
                /\ temp_files' = Cleanup(temp_files, temp_file_created, "brokerage")
           ELSE /\ brokerage_data' = brokerage_data /\ pc' = "strategy_b"
                /\ temp_files' = temp_files
  /\ UNCHANGED << temp_file_created, unwrapped >>
  /\ UNCHANGED << scan_vars, orc_vars, date_prefix, bdoc, pdoc, target_year, target_month_num,
                  opened, press_release_data, final_mapped_data, missing_data,
                  csv_files, io_failed, ret >>

\* lines 355-361: Strategy 2
StrategyB ==
  /\ pc = "strategy_b"
  /\ LET result == Rebind(ran[Len(ran)][2],
                          parse_using_coordinates(bdoc, target_year,
                                                  MONTH_MAPPING(target_month_num)))
     IN /\ ran' = Append(ran, << "B", result >>)
        /\ IF Sufficient(result)
           THEN /\ brokerage_data' = result /\ pc' = "press"
                /\ temp_files' = Cleanup(temp_files, temp_file_created, "brokerage")
           ELSE /\ brokerage_data' = brokerage_data /\ pc' = "strategy_c"
                /\ temp_files' = temp_files
  /\ UNCHANGED << temp_file_created, unwrapped >>
  /\ UNCHANGED << scan_vars, orc_vars, date_prefix, bdoc, pdoc, target_year, target_month_num,
                  opened, press_release_data, final_mapped_data, missing_data,
                  csv_files, io_failed, ret >>

\* lines 363-371: Strategy 3 and the end of the cascade
StrategyC ==
  /\ pc = "strategy_c"
  /\ LET result == Rebind(ran[Len(ran)][2],
                          parse_using_table_extraction(bdoc, target_year,
                                                       MONTH_MAPPING(target_month_num)))
     IN /\ ran' = Append(ran, << "C", result >>)
        /\ brokerage_data' = CascadeEnd(result)
  /\ temp_files' = Cleanup(temp_files, temp_file_created, "brokerage")
  /\ pc' = "press"
  /\ UNCHANGED << temp_file_created, unwrapped >>
  /\ UNCHANGED << scan_vars, orc_vars, date_prefix, bdoc, pdoc, target_year, target_month_num,
                  opened, press_release_data, final_mapped_data, missing_data,
                  csv_files, io_failed, ret >>

\* line 843: parse_press_release, from the wrapper to the finally clause
ParsePress ==
  /\ pc = "press"
  /\ opened' = Append(opened, << "press", "parse" >>)
  /\ \E outcome \in WrapperOutcomes(pdoc) :
       LET clean == extract_pdf_from_java_wrapper(pdoc, outcome)
           created == clean.path # "original"
           made == IF clean.file THEN { "press" } ELSE {}
       IN \E open_ok \in CleanOpen(pdoc, clean.path) :
            /\ press_release_data' = parse_press_release([pdoc EXCEPT !.openable = open_ok])
            /\ unwrapped' = unwrapped \cup made
            /\ temp_files' = Cleanup(temp_files \cup made, created, "press")
  /\ UNCHANGED temp_file_created
  /\ pc' = "check"
  /\ UNCHANGED << scan_vars, orc_vars, date_prefix, bdoc, pdoc, target_year, target_month_num, ran,
                  brokerage_data, final_mapped_data, missing_data, csv_files,
                  io_failed, ret >>

\* a variant of CriticalError that looks at the wrong result
CriticalErrorWrongResult(brokerage, press_release) == HasError(press_release)

\* a variant of CriticalError for which either error ends the pair
CriticalErrorEither(brokerage, press_release) ==
  HasError(brokerage) \/ HasError(press_release)

\* lines 845-853: the errors that end the pair: an error of the brokerage
\* engine does, an error of the press release does not
CriticalError(brokerage, press_release) == HasError(brokerage)

\* lines 846-848: a brokerage error ends the pair
BrokerageFailed ==
  /\ pc = "check"
  /\ CriticalError(brokerage_data, press_release_data)
  /\ ret' = "False"
  /\ pc' = "done"
  /\ UNCHANGED << scan_vars, orc_vars, date_prefix, bdoc, pdoc, target_year, target_month_num,
                  opened, ran, brokerage_data, press_release_data,
                  final_mapped_data, missing_data, csv_files, io_failed >>
  /\ UNCHANGED wrap_vars

\* lines 850-891: a press-release error becomes {}; the mapping pass and the
\* derived field
MapFields ==
  /\ pc = "check"
  /\ ~CriticalError(brokerage_data, press_release_data)
  /\ press_release_data' = IF HasError(press_release_data) THEN EmptyDict
                           ELSE press_release_data
  /\ final_mapped_data' = FinalMappedData(brokerage_data, press_release_data')
  /\ missing_data' = MissingData(brokerage_data, press_release_data')
  /\ pc' = "emit"
  /\ UNCHANGED << scan_vars, orc_vars, date_prefix, bdoc, pdoc, target_year, target_month_num,
                  opened, ran, brokerage_data, csv_files, io_failed, ret >>
  /\ UNCHANGED wrap_vars

\* f"{target_year}-{target_month_num:02d}"
DateStr(year, month_num) ==
  year \o << "-" >> \o
  (IF month_num < 10 THEN << "0" >> \o IntToStr(month_num) ELSE IntToStr(month_num))

\* a variant of CsvRows that writes the values in the order of a sorted dict
CsvRowsValuesReversed(final_data, date_str) ==
  << << "Date" >> \o FINAL_CSV_COLUMNS,
     << << >> >> \o [i \in 1..Len(FINAL_CSV_COLUMNS) |-> DESCRIPTIVE_HEADERS[FINAL_CSV_COLUMNS[i]]],
     << date_str >> \o [i \in 1..Len(FINAL_CSV_COLUMNS) |->
                          Get(final_data, FINAL_CSV_COLUMNS[Len(FINAL_CSV_COLUMNS) + 1 - i])] >>

\* the three rows create_csv_output writes: the identifiers, the captions
\* and the data, each after a first cell for the date
CsvRows(final_data, date_str) ==
  << << "Date" >> \o FINAL_CSV_COLUMNS,
     << << >> >> \o [i \in 1..Len(FINAL_CSV_COLUMNS) |-> DESCRIPTIVE_HEADERS[FINAL_CSV_COLUMNS[i]]],
     << date_str >> \o [i \in 1..Len(FINAL_CSV_COLUMNS) |-> Get(final_data, FINAL_CSV_COLUMNS[i])] >>

\* lines 905-916 and create_csv_output: the file IBKR_DATA_OUTPUT_<prefix>.csv
\* is written, or open() raises IOError and nothing is written
Emit ==
  /\ pc = "emit"
  /\ \E io_ok \in BOOLEAN :
       /\ csv_files' = IF io_ok
                       THEN Put(csv_files, date_prefix,
                                CsvRows(final_mapped_data,
                                        DateStr(target_year, target_month_num)))
                       ELSE csv_files
       /\ io_failed' = ~io_ok
       /\ ret' = IF io_ok THEN "True" ELSE "False"
  /\ pc' = "done"
  /\ UNCHANGED << scan_vars, orc_vars, date_prefix, bdoc, pdoc, target_year, target_month_num,
                  opened, ran, brokerage_data, press_release_data,
                  final_mapped_data, missing_data >>
  /\ UNCHANGED wrap_vars

Next ==
  \/ ResolveHint
  \/ FallbackBrokerage
  \/ FallbackPress
  \/ PeriodUnresolved
  \/ EngineEntry
  \/ StrategyA
  \/ StrategyB
  \/ StrategyC
  \/ ParsePress
  \/ BrokerageFailed
  \/ MapFields
  \/ Emit

Spec == Init /\ [][Next]_vars

(***************************************************************************)
(* The batch scan: FileManager.find_and_process_all_reports                *)
(*                                                                         *)
(* A file is the record of the leading digits of its name and of what      *)
(* stands between them and the ending ".pdf".  A call of process_pdf_pair  *)
(* is taken by its outcome: it returns True after writing                  *)
(* IBKR_DATA_OUTPUT_<prefix>.csv into the working directory, or False      *)
(* without writing.                                                        *)
(***************************************************************************)
MetricsPressRelease ==
  << "M", "e", "t", "r", "i", "c", "s", "P", "r", "e", "s", "s", "R", "e", "l", "e", "a", "s", "e" >>
MonthlyBrokerageData ==
  << "M", "o", "n", "t", "h", "l", "y", "B", "r", "o", "k", "e", "r", "a", "g", "e", "D", "a", "t", "a" >>

\* the same report type in lower case, as a file name may write it
monthlybrokeragedata == LowerStr(MonthlyBrokerageData)

File(digits, rest) == [digits |-> digits, rest |-> rest]

\* re.match(r"(\d{6})(MetricsPressRelease|MonthlyBrokerageData)\.pdf",
\* file_path.name, re.IGNORECASE): the groups, << >> without match
NameMatch(file) ==
  IF /\ Len(file.digits) = 6
     /\ LowerStr(file.rest) \in { LowerStr(MetricsPressRelease), LowerStr(MonthlyBrokerageData) }
  THEN << file.digits, file.rest >>
  ELSE << >>

required_types == << MetricsPressRelease, MonthlyBrokerageData >>

\* the directories of the walk: the script directory and one below it
script_dir == "app"
sub_dir == "app/sub"

\* the files a directory may hold
ScanNames ==
  { File(Hint(2025, 1), MonthlyBrokerageData), File(Hint(2025, 1), MetricsPressRelease),
    File(Hint(2025, 1), monthlybrokeragedata),
    File(Hint(2025, 2), MonthlyBrokerageData), File(Hint(2025, 2), MetricsPressRelease),
    File(<< "2", "0", "2", "5", "1" >>, MonthlyBrokerageData) }

SubNames == { f \in ScanNames : f.digits = Hint(2025, 1) }

\* [script_dir] + list(script_dir.rglob("*")): the script directory, then
\* what lies below it, files included
Walk ==
  << [path |-> script_dir, is_dir |-> TRUE],
     [path |-> "app/notes.txt", is_dir |-> FALSE],
     [path |-> sub_dir, is_dir |-> TRUE] >>

\* no call of process_pdf_pair is running
PairIdle ==
  /\ date_prefix = << >> /\ bdoc = EmptyDocument /\ pdoc = EmptyDocument
  /\ pc = "idle"
  /\ target_year = NoneStr /\ target_month_num = NoneInt
  /\ opened = << >> /\ ran = << >>
  /\ brokerage_data = Unset /\ press_release_data = Unset
  /\ final_mapped_data = EmptyDict /\ missing_data = << >>
  /\ csv_files = EmptyDict /\ io_failed = FALSE /\ ret = "none"
  /\ temp_files = {} /\ temp_file_created = FALSE /\ unwrapped = {}

ScanInit ==
  /\ tree \in { [d \in { script_dir, sub_dir } |-> IF d = script_dir THEN a ELSE b] :
                  a \in SUBSET ScanNames, b \in SUBSET SubNames }
  /\ scan_pc = "walk"
  /\ roots = Walk
  /\ root = ""
  /\ report_groups = << >>
  /\ pending = {}
  /\ processed_files = {}
  /\ successful_processing = 0
  /\ handed = << >>
  /\ outputs = << >>
  /\ scan_ret = << >>
  /\ PairIdle
  /\ OrcIdle

\* lines 945-954: report_groups of a directory
ReportGroups(dir) ==
  LET found == { f \in tree[dir] : NameMatch(f) # << >> }
      prefixes == { NameMatch(f)[1] : f \in found }
  IN [date_prefix_ \in prefixes |->
       [report_type \in { NameMatch(f)[2] : f \in { g \in found : NameMatch(g)[1] = date_prefix_ } } |->
          [dir |-> dir,
           file |-> CHOOSE f \in found : NameMatch(f) = << date_prefix_, report_type >>]]]

\* all(report_type in paths for report_type in required_types)
Complete(paths) ==
  \A i \in 1..Len(required_types) : required_types[i] \in DOMAIN paths

\* tuple(sorted(str(p) for p in paths.values())), as the set of the paths
file_pair_key(paths) == { paths[t] : t \in DOMAIN paths }

\* lines 938-940: an entry of the walk that is no directory
SkipNonDirectory ==
  /\ scan_pc = "walk"
  /\ roots # << >>
  /\ ~Head(roots).is_dir
  /\ roots' = Tail(roots)
  /\ UNCHANGED << tree, scan_pc, root, report_groups, pending, processed_files,
                  successful_processing, handed, outputs, scan_ret >>
  /\ UNCHANGED << pair_vars, orc_vars >>

\* lines 942-954: the next directory of the walk and its report_groups
VisitDirectory ==
  /\ scan_pc = "walk"
  /\ roots # << >>
  /\ Head(roots).is_dir
  /\ root' = Head(roots).path
  /\ roots' = Tail(roots)
  /\ report_groups' = ReportGroups(Head(roots).path)
  /\ pending' = DOMAIN ReportGroups(Head(roots).path)
  /\ scan_pc' = IF pending' = {} THEN "walk" ELSE "pairs"
  /\ UNCHANGED << tree, processed_files, successful_processing, handed, outputs,
                  scan_ret >>
  /\ UNCHANGED << pair_vars, orc_vars >>

\* lines 957-978: one pass of the loop over report_groups, in the order of
\* the directory listing; success is what process_pdf_pair returns
NextPrefix ==
  /\ scan_pc = "pairs"
  /\ \E date_prefix_ \in pending :
       LET paths == report_groups[date_prefix_] IN
       /\ pending' = pending \ { date_prefix_ }
       /\ scan_pc' = IF pending' = {} THEN "walk" ELSE "pairs"
       /\ IF Complete(paths) /\ file_pair_key(paths) \notin processed_files
          THEN \E success \in BOOLEAN :
                 /\ handed' = Append(handed, << root, date_prefix_, success >>)
                 /\ outputs' = IF success
                               THEN Put(outputs, date_prefix_,
                                        [dir |-> root, date_prefix |-> date_prefix_])
                               ELSE outputs
                 /\ successful_processing' =
                      IF success THEN successful_processing + 1 ELSE successful_processing
                 /\ processed_files' = processed_files \cup { file_pair_key(paths) }
          ELSE UNCHANGED << handed, outputs, successful_processing, processed_files >>
  /\ UNCHANGED << tree, roots, root, report_groups, scan_ret >>
  /\ UNCHANGED << pair_vars, orc_vars >>

\* lines 983-990: the end of the walk
FinishScan ==
  /\ scan_pc = "walk"
  /\ roots = << >>
  /\ scan_ret' = << Cardinality(processed_files), successful_processing >>
  /\ scan_pc' = "done"
  /\ UNCHANGED << tree, roots, root, report_groups, pending, processed_files,
                  successful_processing, handed, outputs >>
  /\ UNCHANGED << pair_vars, orc_vars >>

ScanNext ==
  \/ SkipNonDirectory
  \/ VisitDirectory
  \/ NextPrefix
  \/ FinishScan

ScanSpec == ScanInit /\ [][ScanNext]_vars

(***************************************************************************)
(* The orchestrator: IBKROrchestrator                                      *)
(*                                                                         *)
(* env holds what the steps meet: whether the modules import, whether      *)
(* main.py and map2.py exist, how the run of main.py ends and how many     *)
(* PDF files it leaves, how the run of map2.py ends and how many pairs it  *)
(* processes with success.  map2.py ends with return code 0 whenever its   *)
(* main returns, whatever the number of pairs (map2.py lines 1141-1159).   *)
(***************************************************************************)
Modes == { "full", "download_only", "process_only" }

MaxPairs == 1

Envs ==
  [deps : BOOLEAN, files : BOOLEAN, download_rc : { 0, 1 }, downloaded : { 0, 2 },
   map2_rc : { 0, 1 }, successful : 0..MaxPairs]

OrcInit ==
  /\ mode \in Modes
  /\ env \in Envs
  /\ orc_pc = "check_dependencies"
  /\ steps = << >>
  /\ pdf_files \in { 0, 1 }
  /\ pairs_ok = 0
  /\ artifacts \in BOOLEAN
  /\ orc_ret = "none"
  /\ PairIdle
  /\ ScanIdle

\* a variant of AfterStep in which a failed processing step is passed over
\* like a failed output check
AfterStepProcessingOptional(workflow, step, ok) ==
  IF workflow = "full"
  THEN CASE step = "check_dependencies" ->
              IF ok THEN [pc |-> "check_required_files", ret |-> "none"]
              ELSE [pc |-> "done", ret |-> "False"]
         [] step = "check_required_files" ->
              IF ok THEN [pc |-> "download_pdfs", ret |-> "none"]
              ELSE [pc |-> "done", ret |-> "False"]
         [] step = "download_pdfs" ->
              IF ok THEN [pc |-> "check_downloaded_pdfs", ret |-> "none"]
              ELSE [pc |-> "done", ret |-> "False"]
         [] step = "check_downloaded_pdfs" ->
              IF ok THEN [pc |-> "process_pdfs", ret |-> "none"]
              ELSE [pc |-> "done", ret |-> "False"]
         [] step = "process_pdfs" -> [pc |-> "check_output_files", ret |-> "none"]
         [] step = "check_output_files" -> [pc |-> "cleanup_old_files", ret |-> "none"]
         [] step = "cleanup_old_files" -> [pc |-> "done", ret |-> "True"]
  ELSE IF workflow = "download_only"
  THEN CASE step = "check_dependencies" ->
              IF ok THEN [pc |-> "check_required_files", ret |-> "none"]
              ELSE [pc |-> "done", ret |-> "False"]
         [] step = "check_required_files" ->
              IF ok THEN [pc |-> "download_pdfs", ret |-> "none"]
              ELSE [pc |-> "done", ret |-> "False"]
         [] step = "download_pdfs" ->
              IF ok THEN [pc |-> "check_downloaded_pdfs", ret |-> "none"]
              ELSE [pc |-> "done", ret |-> "False"]
         [] step = "check_downloaded_pdfs" ->
              [pc |-> "done", ret |-> IF ok THEN "True" ELSE "False"]
  ELSE CASE step = "check_dependencies" ->
              IF ok THEN [pc |-> "check_required_files", ret |-> "none"]
              ELSE [pc |-> "done", ret |-> "False"]
         [] step = "check_required_files" ->
              IF ok THEN [pc |-> "check_downloaded_pdfs", ret |-> "none"]
              ELSE [pc |-> "done", ret |-> "False"]
         [] step = "check_downloaded_pdfs" ->
              IF ok THEN [pc |-> "process_pdfs", ret |-> "none"]
              ELSE [pc |-> "done", ret |-> "False"]
         [] step = "process_pdfs" ->
              IF ok THEN [pc |-> "check_output_files", ret |-> "none"]
              ELSE [pc |-> "done", ret |-> "False"]
         [] step = "check_output_files" ->
              [pc |-> "done", ret |-> IF ok THEN "True" ELSE "False"]

\* run_full_workflow (lines 299-345), run_download_only (347-357) and
\* run_process_only (359-373): what follows a step that returned ok, as the
\* step to run next or the value returned
AfterStep(workflow, step, ok) ==
  IF workflow = "full"
  THEN CASE step = "check_dependencies" ->
              IF ok THEN [pc |-> "check_required_files", ret |-> "none"]
              ELSE [pc |-> "done", ret |-> "False"]
         [] step = "check_required_files" ->
              IF ok THEN [pc |-> "download_pdfs", ret |-> "none"]
              ELSE [pc |-> "done", ret |-> "False"]
         [] step = "download_pdfs" ->
              IF ok THEN [pc |-> "check_downloaded_pdfs", ret |-> "none"]
              ELSE [pc |-> "done", ret |-> "False"]
         [] step = "check_downloaded_pdfs" ->
              IF ok THEN [pc |-> "process_pdfs", ret |-> "none"]
              ELSE [pc |-> "done", ret |-> "False"]
         [] step = "process_pdfs" ->
              IF ok THEN [pc |-> "check_output_files", ret |-> "none"]
              ELSE [pc |-> "done", ret |-> "False"]
         [] step = "check_output_files" -> [pc |-> "cleanup_old_files", ret |-> "none"]
         [] step = "cleanup_old_files" -> [pc |-> "done", ret |-> "True"]
  ELSE IF workflow = "download_only"
  THEN CASE step = "check_dependencies" ->
              IF ok THEN [pc |-> "check_required_files", ret |-> "none"]
              ELSE [pc |-> "done", ret |-> "False"]
         [] step = "check_required_files" ->
              IF ok THEN [pc |-> "download_pdfs", ret |-> "none"]
              ELSE [pc |-> "done", ret |-> "False"]
         [] step = "download_pdfs" ->
              IF ok THEN [pc |-> "check_downloaded_pdfs", ret |-> "none"]
              ELSE [pc |-> "done", ret |-> "False"]
         [] step = "check_downloaded_pdfs" ->
              [pc |-> "done", ret |-> IF ok THEN "True" ELSE "False"]
  ELSE CASE step = "check_dependencies" ->
              IF ok THEN [pc |-> "check_required_files", ret |-> "none"]
              ELSE [pc |-> "done", ret |-> "False"]
         [] step = "check_required_files" ->
              IF ok THEN [pc |-> "check_downloaded_pdfs", ret |-> "none"]
              ELSE [pc |-> "done", ret |-> "False"]
         [] step = "check_downloaded_pdfs" ->
              IF ok THEN [pc |-> "process_pdfs", ret |-> "none"]
              ELSE [pc |-> "done", ret |-> "False"]
         [] step = "process_pdfs" ->
              IF ok THEN [pc |-> "check_output_files", ret |-> "none"]
              ELSE [pc |-> "done", ret |-> "False"]
         [] step = "check_output_files" ->
              [pc |-> "done", ret |-> IF ok THEN "True" ELSE "False"]

\* a step has returned ok: it is recorded and the workflow goes on or returns
Returns(step, ok) ==
  /\ steps' = Append(steps, << step, ok >>)
  /\ orc_pc' = AfterStep(mode, step, ok).pc
  /\ orc_ret' = AfterStep(mode, step, ok).ret

\* lines 77-103: True iff every required module imports
check_dependencies ==
  /\ orc_pc = "check_dependencies"
  /\ Returns("check_dependencies", env.deps)
  /\ UNCHANGED << mode, env, pdf_files, pairs_ok, artifacts >>
  /\ UNCHANGED << pair_vars, scan_vars >>

\* lines 105-129: True iff main.py and map2.py exist
check_required_files ==
  /\ orc_pc = "check_required_files"
  /\ Returns("check_required_files", env.files)
  /\ UNCHANGED << mode, env, pdf_files, pairs_ok, artifacts >>
  /\ UNCHANGED << pair_vars, scan_vars >>

\* lines 131-179: main.py is run; True iff its return code is 0
download_pdfs ==
  /\ orc_pc = "download_pdfs"
  /\ pdf_files' = pdf_files + env.downloaded
  /\ Returns("download_pdfs", env.download_rc = 0)
  /\ UNCHANGED << mode, env, pairs_ok, artifacts >>
  /\ UNCHANGED << pair_vars, scan_vars >>

\* lines 181-211: False iff the downloads directory holds no PDF file
check_downloaded_pdfs ==
  /\ orc_pc = "check_downloaded_pdfs"
  /\ Returns("check_downloaded_pdfs", pdf_files > 0)
  /\ UNCHANGED << mode, env, pdf_files, pairs_ok, artifacts >>
  /\ UNCHANGED << pair_vars, scan_vars >>

\* lines 213-261: map2.py is run; True iff its return code is 0.  Every
\* pair it processes with success leaves an artifact.
process_pdfs ==
  /\ orc_pc = "process_pdfs"
  /\ pairs_ok' = env.successful
  /\ artifacts' = (artifacts \/ env.successful > 0)
  /\ Returns("process_pdfs", env.map2_rc = 0)
  /\ UNCHANGED << mode, env, pdf_files >>
  /\ UNCHANGED << pair_vars, scan_vars >>

\* lines 263-279: True iff an IBKR_DATA_OUTPUT_*.csv is in the working
\* directory
check_output_files ==
  /\ orc_pc = "check_output_files"
  /\ Returns("check_output_files", artifacts)
  /\ UNCHANGED << mode, env, pdf_files, pairs_ok, artifacts >>
  /\ UNCHANGED << pair_vars, scan_vars >>

\* lines 281-297: old log files are deleted; the method returns None
cleanup_old_files ==
  /\ orc_pc = "cleanup_old_files"
  /\ Returns("cleanup_old_files", TRUE)
  /\ UNCHANGED << mode, env, pdf_files, pairs_ok, artifacts >>
  /\ UNCHANGED << pair_vars, scan_vars >>

OrcNext ==
  \/ check_dependencies
  \/ check_required_files
  \/ download_pdfs
  \/ check_downloaded_pdfs
  \/ process_pdfs
  \/ check_output_files
  \/ cleanup_old_files

OrcSpec == OrcInit /\ [][OrcNext]_vars

(***************************************************************************)
(* Properties of the tabular engine                                        *)
(***************************************************************************)
\* the strategies have been reached and parse_monthly_brokerage_data has
\* returned
EngineReturned == ran # << >> /\ pc \in { "press", "check", "emit", "done" }

\* a result that is an error or holds fewer than 5 metrics
FewOrError(result) == HasError(result) \/ Cardinality(DOMAIN result) < 5

\* the fixed error of an exhausted cascade
AllStrategiesFailed ==
  [k \in { "Error" } |-> << "All parsing strategies failed to extract sufficient data" >>]

\* C1: the strategies run in the order A, B, C; B runs only after an A that
\* gave an error or fewer than 5 metrics, C only after a B that did so too;
\* and the engine returns the result of the first of A and B that is no
\* error and holds at least 5 metrics, running no strategy after it.
C1_StrategyOrder ==
  /\ Len(ran) <= 3
  /\ \A i \in 1..Len(ran) : ran[i][1] = << "A", "B", "C" >>[i]
  /\ \A i \in 2..Len(ran) : FewOrError(ran[i - 1][2])
  /\ \A i \in 1..Len(ran) :
       (i < 3 /\ ~FewOrError(ran[i][2])) =>
         /\ Len(ran) = i
         /\ pc # "strategy_b" /\ pc # "strategy_c"
         /\ brokerage_data = ran[i][2]
  /\ (EngineReturned /\ Len(ran) < 3) => ~FewOrError(ran[Len(ran)][2])

\* C1 witness: A was insufficient, B was sufficient, and the engine returned
\* B's result without running C
C1_Witness ==
  /\ pc = "press"
  /\ Len(ran) = 2
  /\ FewOrError(ran[1][2])
  /\ Cardinality(DOMAIN ran[2][2]) >= 5
  /\ brokerage_data = ran[2][2]

\* C2 as stated: after insufficient A and B, every result of C that is no
\* error is returned, whatever number of metrics it holds, none included.
C2_AnyNonErrorAccepted ==
  (EngineReturned /\ Len(ran) = 3 /\ ~HasError(ran[3][2])) =>
    brokerage_data = ran[3][2]

\* C2 as amended: after insufficient A and B, a result of C that is no error
\* and holds at least one metric is returned, fewer than 5 included; a
\* mapping with no metric is not returned: the engine returns the
\* all-strategies-failed error.
C2_NonEmptyAccepted ==
  (EngineReturned /\ Len(ran) = 3 /\ ~HasError(ran[3][2])) =>
    /\ Cardinality(DOMAIN ran[3][2]) >= 1 => brokerage_data = ran[3][2]
    /\ Cardinality(DOMAIN ran[3][2]) = 0 => brokerage_data = AllStrategiesFailed

\* C2 witness: C's result holds between 1 and 4 metrics and is returned
C2_Witness ==
  /\ EngineReturned /\ Len(ran) = 3
  /\ ~HasError(ran[3][2])
  /\ Cardinality(DOMAIN ran[3][2]) \in 1..4
  /\ brokerage_data = ran[3][2]

\* C3 as stated: when no result is accepted, the error returned is the
\* error value Strategy C produced.
C3_ReturnsLastError ==
  (EngineReturned /\ Len(ran) = 3 /\ HasError(brokerage_data)) =>
    brokerage_data = ran[3][2]

\* C3 as amended: when no result is accepted (C gave an error or an empty
\* mapping after insufficient A and B), the engine returns the fixed
\* all-strategies-failed error, whatever C produced.
C3_ReturnsFixedError ==
  (EngineReturned /\ Len(ran) = 3
     /\ (HasError(ran[3][2]) \/ DOMAIN ran[3][2] = {})) =>
    brokerage_data = AllStrategiesFailed

\* C3 witness: C produced an error of its own and the engine returned the
\* fixed error
C3_Witness ==
  /\ EngineReturned /\ Len(ran) = 3
  /\ HasError(ran[3][2])
  /\ ran[3][2] # AllStrategiesFailed
  /\ brokerage_data = AllStrategiesFailed

\* the results of the three strategies on the brokerage document for the
\* resolved period
ResultA == parse_using_text_extraction(bdoc, target_year, MONTH_MAPPING(target_month_num))
ResultB == parse_using_coordinates(bdoc, target_year, MONTH_MAPPING(target_month_num))
ResultC == parse_using_table_extraction(bdoc, target_year, MONTH_MAPPING(target_month_num))

\* C4 as stated: for a readable document and a valid period, the engine
\* returns the all-strategies-failed error iff each of A, B and C returns
\* fewer than 5 metrics or an error.
C4_FailsIffAllFew ==
  EngineReturned =>
    (brokerage_data = AllStrategiesFailed
       <=> FewOrError(ResultA) /\ FewOrError(ResultB) /\ FewOrError(ResultC))

\* C4 as amended: for a readable document and a valid period, the engine
\* returns the all-strategies-failed error iff A and B each return fewer
\* than 5 metrics or an error and C returns an error or no metric at all.
C4_FailsIffNoneAccepted ==
  EngineReturned =>
    (brokerage_data = AllStrategiesFailed
       <=> /\ FewOrError(ResultA) /\ FewOrError(ResultB)
           /\ (HasError(ResultC) \/ Cardinality(DOMAIN ResultC) = 0))

\* C4 witness: all three strategies gave too little and the engine returned
\* the all-strategies-failed error
C4_Witness ==
  /\ EngineReturned
  /\ FewOrError(ResultA) /\ FewOrError(ResultB)
  /\ DOMAIN ResultC = {}
  /\ brokerage_data = AllStrategiesFailed

(***************************************************************************)
(* Properties of process_pdf_pair                                          *)
(***************************************************************************)
\* no year or no month is set
Unresolved ==
  target_year = << >> \/ target_month_num = NoneInt \/ target_month_num = 0

\* C5: when the tabular engine returns an error, process_pdf_pair builds no
\* record, writes no output artifact and returns failure; an artifact is
\* written only in a run whose period was resolved and whose tabular result
\* is no error.
C5_TabularErrorIsFatal ==
  /\ HasError(brokerage_data) =>
       /\ final_mapped_data = EmptyDict
       /\ csv_files = EmptyDict
       /\ pc \in { "press", "check", "done" }
       /\ pc = "done" => ret = "False"
  /\ csv_files # EmptyDict =>
       /\ ~Unresolved
       /\ brokerage_data # Unset
       /\ ~HasError(brokerage_data)

\* C5 witness: the cascade was exhausted and the pair ended in failure with
\* no record and no artifact
C5_Witness ==
  /\ pc = "done"
  /\ brokerage_data = AllStrategiesFailed
  /\ ret = "False"
  /\ final_mapped_data = EmptyDict
  /\ csv_files = EmptyDict

\* the narrative engine returns an error for the press release
NarrativeFailed == HasError(parse_press_release(pdoc))

\* the tabular engine has returned a mapping
TabularSucceeded == brokerage_data # Unset /\ ~HasError(brokerage_data)

NarrativeColumns ==
  { "AVGCOMMISSION.STOCK", "AVGCOMMISSION.EQUITYOPTIONS", "AVGCOMMISSION.FUTURES",
    "AVGORDER.STOCK", "AVGORDER.EQUITYOPTIONS", "AVGORDER.FUTURES" }

\* C6: when the narrative engine fails and the tabular engine succeeds,
\* processing goes on: the record is built and handed to the emitter (the
\* artifact is written unless opening the file fails), the six
\* narrative-sourced fields are empty, and the other fields are what they
\* are with any successful narrative result.
C6_NarrativeErrorDegrades ==
  (NarrativeFailed /\ TabularSucceeded /\ pc \in { "emit", "done" }) =>
    /\ DOMAIN final_mapped_data = Columns
    /\ \A f \in NarrativeColumns : final_mapped_data[f] = << >>
    /\ \A q \in PressDocs :
         ~HasError(parse_press_release(q)) =>
           \A f \in Columns \ NarrativeColumns :
             final_mapped_data[f] =
               FinalMappedData(brokerage_data, parse_press_release(q))[f]
    /\ (pc = "done" /\ ~io_failed) =>
         /\ ret = "True"
         /\ date_prefix \in DOMAIN csv_files
         /\ \A i \in 1..Len(FINAL_CSV_COLUMNS) :
              csv_files[date_prefix][3][i + 1] = final_mapped_data[FINAL_CSV_COLUMNS[i]]

\* C6 witness: the press release could not be parsed, and the record was
\* written with tabular values in it
C6_Witness ==
  /\ pc = "done"
  /\ NarrativeFailed
  /\ ret = "True"
  /\ date_prefix \in DOMAIN csv_files
  /\ \E f \in Columns \ NarrativeColumns : final_mapped_data[f] # << >>

\* the hint is six digits
HintIsSixDigits ==
  Len(date_prefix) = 6 /\ \A i \in 1..6 : date_prefix[i] \in Digit

HintYearNumber ==
  1000 * DigitVal(date_prefix[1]) + 100 * DigitVal(date_prefix[2])
    + 10 * DigitVal(date_prefix[3]) + DigitVal(date_prefix[4])

HintMonthNumber == 10 * DigitVal(date_prefix[5]) + DigitVal(date_prefix[6])

\* a valid YYYYMM hint
ValidHint ==
  /\ HintIsSixDigits
  /\ HintYearNumber >= 2015 /\ HintYearNumber <= 2030
  /\ HintMonthNumber >= 1 /\ HintMonthNumber <= 12

\* a document was opened to infer the date from its content
ContentInference == \E i \in 1..Len(opened) : opened[i][2] = "date"

\* C7: with a valid YYYYMM hint, the resolved period is exactly the hint's
\* year and month, and no document is opened to infer the date.
C7_ValidHintUsedDirectly ==
  (ValidHint /\ pc # "start") =>
    /\ target_year = SubSeq(date_prefix, 1, 4)
    /\ target_month_num = HintMonthNumber
    /\ ~ContentInference

\* C7 witness: a pair with a valid hint processed to the end
C7_Witness ==
  /\ ValidHint
  /\ pc = "done"
  /\ ret = "True"
  /\ target_month_num = HintMonthNumber

\* what content inference finds in a document
ContentDate(doc) ==
  IF doc.openable THEN extract_date_from_content(doc) ELSE << NoneInt, NoneInt >>

\* the resolver is past its last step
Resolved == pc \notin { "start", "fallback_brokerage", "fallback_press" }

\* C8: with a hint that is absent or malformed (not six digits, or a year
\* outside 2015-2030, or a month outside 1-12), content inference is
\* performed and the resolved year and month both come from a document.
C8_MalformedHintInfers ==
  (~ValidHint /\ Resolved) =>
    /\ ContentInference
    /\ target_year # << >> =>
         \E doc \in { bdoc, pdoc } :
           ContentDate(doc)[1] # NoneInt /\ target_year = IntToStr(ContentDate(doc)[1])
    /\ target_month_num \in 1..12 =>
         \/ \E doc \in { bdoc, pdoc } : target_month_num = ContentDate(doc)[2]
         \/ target_month_num = detect_latest_month_from_data(bdoc)

\* no source gives a year
NoYearAnywhere ==
  /\ ~HintIsSixDigits
  /\ ContentDate(bdoc)[1] \notin 1..9999
  /\ ContentDate(pdoc)[1] \notin 1..9999

\* no source gives a month
NoMonthAnywhere ==
  /\ ~(HintIsSixDigits /\ HintMonthNumber >= 1)
  /\ ContentDate(bdoc)[2] \notin 1..12
  /\ detect_latest_month_from_data(bdoc) \notin 1..12
  /\ ContentDate(pdoc)[2] \notin 1..12

\* C9: when no year or no month is established from the hint, the brokerage
\* document or the press release, process_pdf_pair ends in failure before
\* either engine runs, with no record and no artifact.
C9_UnresolvedIsHardStop ==
  ((Unresolved \/ NoYearAnywhere \/ NoMonthAnywhere) /\ Resolved /\ pc # "validate") =>
    /\ Unresolved
    /\ pc = "done"
    /\ ret = "False"
    /\ ran = << >>
    /\ brokerage_data = Unset
    /\ press_release_data = Unset
    /\ \A i \in 1..Len(opened) : opened[i][2] # "parse"
    /\ final_mapped_data = EmptyDict
    /\ csv_files = EmptyDict

\* C9 witness: both documents were searched for a date, none was found, and
\* the pair ended in failure
C9_Witness ==
  /\ pc = "done"
  /\ Unresolved
  /\ Len(opened) = 2
  /\ ret = "False"

\* the date patterns find a year on its own in the document, and no month
\* paired with a year
YearWithoutMonth(doc) ==
  /\ \E i \in 1..Len(doc.matches) :
       Len(doc.matches[i]) = 1 /\ IsYearTok(doc.matches[i][1])
  /\ ContentDate(doc)[2] = NoneInt

\* the year of the first year-only match
LoneYear(doc) ==
  LET i == FirstIndex(Len(doc.matches),
                      LAMBDA j : Len(doc.matches[j]) = 1 /\ IsYearTok(doc.matches[j][1]))
  IN doc.matches[i][1].d

\* C10: when content inference on the brokerage document finds a year but
\* no paired month, the resolver keeps that year and takes the month from
\* the month table (the latest month with data).
C10_YearOnlyInfersMonth ==
  ( /\ \E i \in 1..Len(opened) : opened[i] = << "brokerage", "date" >>
    /\ ~HintIsSixDigits
    /\ bdoc.openable
    /\ YearWithoutMonth(bdoc)
    /\ detect_latest_month_from_data(bdoc) \in 1..12 ) =>
    /\ target_year = LoneYear(bdoc)
    /\ target_month_num = detect_latest_month_from_data(bdoc)

(***************************************************************************)
(* Properties of the schema mapper                                         *)
(***************************************************************************)
\* the mapping pass and the derived field have run
Mapped == DOMAIN final_mapped_data = Columns

\* the values the mapping pass gave the two inputs of the derived field
CreditsTotal == Get(brokerage_data, "Client Credits")
ClientEquity == Get(brokerage_data, "Client Equity")

\* the value the tabular engine extracted for the derived field's own metric
ExtractedCash == Get(brokerage_data, "Cash as % of Assets")

\* both inputs are present and numeric and the equity is greater than 0
CashInputsUsable ==
  /\ CreditsTotal # << >> /\ ClientEquity # << >>
  /\ ParseFloat(CreditsTotal).ok /\ ParseFloat(ClientEquity).ok
  /\ ParseFloat(ClientEquity).m > 0

\* (creditsTotal / clientEquity) * 100 with CashPlaces decimals
CashPercentage ==
  FormatFixed(ParseFloat(CreditsTotal).m * 100 * Pow10(ParseFloat(ClientEquity).f),
              ParseFloat(ClientEquity).m * Pow10(ParseFloat(CreditsTotal).f),
              CashPlaces)

\* s is digits, a point and exactly CashPlaces digits
HasCashPlaces(s) ==
  /\ Len(s) > CashPlaces + 1
  /\ s[Len(s) - CashPlaces] = "."
  /\ IsDigitStr(SubSeq(s, 1, Len(s) - CashPlaces - 1))
  /\ IsDigitStr(SubSeq(s, Len(s) - CashPlaces + 1, Len(s)))

\* C11: once the record is mapped, whenever Client Credits and Client Equity
\* are both mapped and numeric and the equity is greater than 0, the field
\* Cash as % of Assets holds credits / equity * 100 with 11 decimals,
\* whatever value the mapping pass had put there.
C11_CashDerived ==
  (Mapped /\ CashInputsUsable) =>
    /\ final_mapped_data["ACCOUNTLEVEL.CASH"] = CashPercentage
    /\ HasCashPlaces(final_mapped_data["ACCOUNTLEVEL.CASH"])

\* the engine extracted a value for Cash as % of Assets and the derived
\* value has replaced it in the record
C11_Witness ==
  /\ Mapped /\ CashInputsUsable
  /\ ExtractedCash # << >>
  /\ ExtractedCash # CashPercentage
  /\ final_mapped_data["ACCOUNTLEVEL.CASH"] = CashPercentage

\* C12 (as claimed): in every mapped record Cash as % of Assets is empty
\* whenever Client Credits or Client Equity is absent or not numeric or the
\* equity is not greater than 0.
C12_CashEmptyWithoutInputs ==
  (Mapped /\ ~CashInputsUsable) => final_mapped_data["ACCOUNTLEVEL.CASH"] = << >>

(***************************************************************************)
(* Properties of the canonical record and the output artifact              *)
(***************************************************************************)
\* the artifacts written so far
Artifacts == { csv_files[f] : f \in DOMAIN csv_files }

\* no identifier occurs twice in FINAL_CSV_COLUMNS
ColumnsDistinct ==
  \A i, j \in 1..Len(FINAL_CSV_COLUMNS) :
    FINAL_CSV_COLUMNS[i] = FINAL_CSV_COLUMNS[j] => i = j

\* the three rows of an artifact list the fields in the order of
\* FINAL_CSV_COLUMNS, after the first cell
RowsInColumnOrder(rows) ==
  /\ Len(rows) = 3
  /\ \A r \in 1..3 : Len(rows[r]) = 1 + Len(FINAL_CSV_COLUMNS)
  /\ \A i \in 1..Len(FINAL_CSV_COLUMNS) :
       /\ rows[1][i + 1] = FINAL_CSV_COLUMNS[i]
       /\ rows[2][i + 1] = DESCRIPTIVE_HEADERS[FINAL_CSV_COLUMNS[i]]
       /\ rows[3][i + 1] = final_mapped_data[FINAL_CSV_COLUMNS[i]]

\* the record holds exactly the n fields of FINAL_CSV_COLUMNS, each with an
\* entry of MAPPING_CONFIG, and every artifact lists them in that order
RecordOfFields(n) ==
  /\ Len(FINAL_CSV_COLUMNS) = n
  /\ ColumnsDistinct
  /\ Columns \subseteq DOMAIN MAPPING_CONFIG
  /\ Mapped => Cardinality(DOMAIN final_mapped_data) = n
  /\ \A rows \in Artifacts : RowsInColumnOrder(rows)

\* C13 (as claimed): every record is a fixed ordered list of exactly 19
\* named fields, each with an entry in the mapping table, and the data row
\* and both header rows list them in that order.
C13_NineteenFields == Mapped => RecordOfFields(19)

\* C13 (amended): every record is a fixed ordered list of exactly 20 named
\* fields, each with an entry in the mapping table, and the data row and
\* both header rows of every artifact list them in that order.
C13_TwentyFields == Mapped => RecordOfFields(20)

\* an artifact has been written whose data row holds different values in
\* its first and its last field
C13_Witness ==
  /\ ret = "True"
  /\ \E rows \in Artifacts :
       /\ rows[3][2] # << >>
       /\ rows[3][1 + Len(FINAL_CSV_COLUMNS)] # << >>
       /\ rows[3][2] # rows[3][1 + Len(FINAL_CSV_COLUMNS)]

\* the target period is a year of MinYear..MaxYear and a month of 1..12
PeriodInRange ==
  /\ IsDigitStr(target_year)
  /\ MinYear <= StrToInt(target_year) /\ StrToInt(target_year) <= MaxYear
  /\ target_month_num \in 1..12

\* the record has been built, handed to the emitter or written
ReachedEmitter == Mapped \/ pc = "emit" \/ csv_files # EmptyDict

\* C14: every record that reaches the emitter carries a period with a year
\* of 2015..2030 and a month of 1..12, whether the period came from the hint
\* or from the content of a document; a pair whose period is outside that
\* range ends without an artifact.
C14_EmittedPeriodInRange ==
  /\ ReachedEmitter => PeriodInRange
  /\ (pc = "done" /\ ~PeriodInRange) => (csv_files = EmptyDict /\ ret = "False")

\* an artifact has been written for a period taken from document content
C14_Witness ==
  /\ ret = "True"
  /\ csv_files # EmptyDict
  /\ ~HintIsSixDigits
  /\ \E i \in 1..Len(opened) : opened[i][2] = "date"

(***************************************************************************)
(* Properties of the temporary files                                       *)
(***************************************************************************)
\* parse_monthly_brokerage_data and parse_press_release have returned
BrokerageCallReturned == pc \in { "press", "check", "emit", "done" }
PressCallReturned == pc \in { "check", "emit", "done" }

\* C15 (as claimed): whenever a parse call has made a temporary file for an
\* enveloped source file, that file no longer exists once the call has
\* returned, whether the call succeeded, its strategies failed, the
\* document did not open, or making or writing the file itself failed.
C15_TempFileGone ==
  /\ (BrokerageCallReturned /\ "brokerage" \in unwrapped) => "brokerage" \notin temp_files
  /\ (PressCallReturned /\ "press" \in unwrapped) => "press" \notin temp_files

(***************************************************************************)
(* Properties of the strategies' results                                   *)
(***************************************************************************)
\* the results of the strategy s among the strategies run so far
ResultsOf(s) == { ran[i][2] : i \in { j \in 1..Len(ran) : ran[j][1] = s } }

\* C16 (as claimed): whenever Strategy A and Strategy C have both returned a
\* result without error for the document and the target month, they report
\* the same value for every metric that both results hold.
C16_StrategiesAgree ==
  \A a \in ResultsOf("A"), c \in ResultsOf("C") :
    (~HasError(a) /\ ~HasError(c)) =>
      \A m \in DOMAIN a \cap DOMAIN c : a[m] = c[m]

\* the brokerage metric names of MAPPING_CONFIG
BrokerageVocabulary ==
  { "Total Accounts", "Net New Accounts", "Total Client DARTs",
    "Cleared Client DARTs", "Cleared Avg. DART per Account (Annualized)",
    "Options Contracts", "Futures Contracts", "Stock Shares", "Client Equity",
    "FDIC Program Client Credits", "Client Credits Held at Broker",
    "Client Credits", "Client Margin Loans", "Cash as % of Assets" }

\* the metrics Strategy A has a pattern for
PatternVocabulary == BrokerageVocabulary \ { "Cleared Avg. DART per Account (Annualized)" }

ProductNames == { "Stocks", "Equity Options", "Futures" }

\* parse_press_release has returned a result
PressReturned == press_release_data # Unset

\* every result of the tabular engine that is no error holds only names of
\* the vocabulary of n names
TabularNamesFrom(vocabulary, n) ==
  /\ Cardinality(vocabulary) = n
  /\ (EngineReturned /\ ~HasError(brokerage_data)) =>
       DOMAIN brokerage_data \subseteq vocabulary

\* every result of the narrative engine that is no error holds only the
\* three products, each with the pair (Average Order Size, Average
\* Commission)
NarrativeNamesFixed ==
  (PressReturned /\ ~HasError(press_release_data)) =>
    /\ DOMAIN press_release_data \subseteq ProductNames
    /\ \A p \in DOMAIN press_release_data :
         /\ Len(press_release_data[p]) = 2
         /\ PressGet(press_release_data, p, "Average Order Size") = press_release_data[p][1]
         /\ PressGet(press_release_data, p, "Average Commission") = press_release_data[p][2]

\* C17 (as claimed): every result of the tabular engine that is no error
\* holds only metric names of a fixed vocabulary of 13 names, and every
\* result of the narrative engine that is no error holds only the 3
\* products, each with its pair of sub-metrics.
C17_ThirteenNames == TabularNamesFrom(PatternVocabulary, 13) /\ NarrativeNamesFixed

\* C17 (amended): every result of the tabular engine that is no error holds
\* only metric names of the fixed vocabulary of 14 names, and every result
\* of the narrative engine that is no error holds only the 3 products, each
\* with its pair of sub-metrics.
C17_FourteenNames == TabularNamesFrom(BrokerageVocabulary, 14) /\ NarrativeNamesFixed

\* the tabular engine returned a result with the fourteenth name and the
\* narrative engine one with the three products
C17_Witness ==
  /\ EngineReturned /\ ~HasError(brokerage_data)
  /\ "Cleared Avg. DART per Account (Annualized)" \in DOMAIN brokerage_data
  /\ PressReturned /\ DOMAIN press_release_data = ProductNames

\* the abbreviation of the target month
TargetMonthAbbr == MONTH_MAPPING(target_month_num)

\* the target month's abbreviation appears in the header the strategy s
\* looks for: a line of the text that holds Jan, Feb and Mar (A), the month
\* header words of page 0 (B), the first row with a month cell of some table
\* (C)
TargetInHeader(s) ==
  CASE s = "A" ->
         \E i \in 1..Len(bdoc.lines) :
           /\ \A m \in { "Jan", "Feb", "Mar" } : MonthInLine(bdoc.lines[i], m)
           /\ MonthInLine(bdoc.lines[i], TargetMonthAbbr)
    [] s = "B" ->
         \E i \in 1..Len(bdoc.words.headers) : bdoc.words.headers[i] = TargetMonthAbbr
    [] s = "C" ->
         \E t \in 1..Len(bdoc.tables) :
           \E r \in 1..Len(bdoc.tables[t]) :
             /\ \E c \in 1..Len(bdoc.tables[t][r]) : TargetMonthAbbr \in bdoc.tables[t][r][c].months
             /\ \A q \in 1..(r - 1) :
                  \A c \in 1..Len(bdoc.tables[t][q]) : bdoc.tables[t][q][c].months = {}

\* the result holds no metric value: an error, or an empty mapping
RecordsNothing(result) == HasError(result) \/ DOMAIN result = {}

\* C18: a strategy records a metric value only when the target month's
\* abbreviation appears in the header it located; when the abbreviation is
\* absent, A and B return an error and C returns no value at all, none of
\* them reading another column.
C18_NoValueWithoutTargetMonth ==
  \A i \in 1..Len(ran) :
    ~TargetInHeader(ran[i][1]) =>
      /\ RecordsNothing(ran[i][2])
      /\ ran[i][1] \in { "A", "B" } => HasError(ran[i][2])

\* the three strategies have run on a document whose text, words and table
\* have month headers without the target month, and none recorded a value
C18_Witness ==
  /\ Len(ran) = 3
  /\ \A s \in { "A", "B", "C" } : ~TargetInHeader(s)
  /\ \E i \in 1..Len(bdoc.lines) : MonthInLine(bdoc.lines[i], "Jan")
  /\ Len(bdoc.words.headers) >= 3
  /\ bdoc.tables # << >> /\ Len(bdoc.tables[1]) >= 2
  /\ ran[1][2] = Err("Could not find header line")
  /\ ran[2][2] = Err("Could not find column boundaries")
  /\ ran[3][2] = EmptyDict

(***************************************************************************)
(* Properties of Strategy A                                                *)
(***************************************************************************)
\* the header line of Strategy A: the first line that holds Jan, Feb, Mar
\* and the target month; 0 when there is none
HeaderLineIdx ==
  LET IsHeader(i) == /\ \A m \in { "Jan", "Feb", "Mar" } : MonthInLine(bdoc.lines[i], m)
                     /\ MonthInLine(bdoc.lines[i], TargetMonthAbbr)
      found == { i \in 1..Len(bdoc.lines) : IsHeader(i) }
  IN IF found = {} THEN 0 ELSE CHOOSE i \in found : \A j \in found : i <= j

\* the lines of the window after the header
WindowLines ==
  IF HeaderLineIdx = 0 THEN {}
  ELSE { i \in 1..Len(bdoc.lines) :
           HeaderLineIdx < i /\ i < HeaderLineIdx + HeaderWindow }

\* the column index of a month: Jan = 0 ... Dec = 11
ColumnIndex(abbr) ==
  CHOOSE k \in 0..11 : VALID_MONTHS[k + 1] = abbr

\* the numeric tokens of the line itself, with $ and , removed
OwnTokens(line) ==
  [k \in 1..line.nown |-> RemoveChars(line.nums[k], { "$", "," })]

\* C19 (as claimed): when Strategy A has found the header line with the
\* target month, every catalogued metric named on a line of the window is
\* extracted when that line has a numeric token at the target month's
\* column index, and every value it is extracted with is that token of
\* that line, with $ and , removed.
C19_ValueAtColumnIndex ==
  \A a \in ResultsOf("A") :
    ~HasError(a) =>
      \A i \in WindowLines :
        \A m \in bdoc.lines[i].hits \cap metric_patterns :
          LET tokens == OwnTokens(bdoc.lines[i])
              idx == ColumnIndex(TargetMonthAbbr)
          IN /\ Len(tokens) > idx => (m \in DOMAIN a /\ a[m] = tokens[idx + 1])
             /\ m \in DOMAIN a => (Len(tokens) > idx /\ a[m] = tokens[idx + 1])

(***************************************************************************)
(* First match wins                                                        *)
(***************************************************************************)
\* the mapping `after` keeps every value of the mapping `before`
KeepsValues(before, after) ==
  \A m \in DOMAIN before : m \in DOMAIN after /\ after[m] = before[m]

\* Strategy A, line after line of the window
FirstMatchWinsA ==
  \A n \in WindowLines :
    LET before == TextLines(EmptyDict, bdoc.lines, HeaderLineIdx + 1, n - 1,
                            ColumnIndex(TargetMonthAbbr))
    IN KeepsValues(before, TextLineStep(before, bdoc.lines[n], ColumnIndex(TargetMonthAbbr)))

\* the header word of the target month in Strategy B
TargetHeaderWord ==
  CHOOSE i \in 1..Len(bdoc.words.headers) : bdoc.words.headers[i] = TargetMonthAbbr

\* Strategy B, row after row
FirstMatchWinsB ==
  \A n \in 1..Len(bdoc.words.rows) :
    LET before == CoordRows(EmptyDict, SubSeq(bdoc.words.rows, 1, n - 1), 1, TargetHeaderWord)
    IN KeepsValues(before, CoordRowStep(before, bdoc.words.rows[n], TargetHeaderWord))

\* Strategy C, table after table and row after row
FirstMatchWinsC ==
  \A t \in 1..Len(bdoc.tables) :
    \A n \in 1..Len(bdoc.tables[t]) :
      LET earlier == Tables(EmptyDict, SubSeq(bdoc.tables, 1, t - 1), 1, TargetMonthAbbr)
          before == TableStep(earlier, SubSeq(bdoc.tables[t], 1, n - 1), TargetMonthAbbr)
          after == TableStep(earlier, SubSeq(bdoc.tables[t], 1, n), TargetMonthAbbr)
      IN KeepsValues(before, after)

\* C20 (as claimed): within one call of a strategy, once a metric has a
\* value in the strategy's mapping, no later line, row or table changes it,
\* for each of the strategies A, B and C.
C20_FirstMatchWins ==
  /\ (\E a \in ResultsOf("A") : ~HasError(a)) => FirstMatchWinsA
  /\ (\E b \in ResultsOf("B") : ~HasError(b)) => FirstMatchWinsB
  /\ (\E c \in ResultsOf("C") : ~HasError(c)) => FirstMatchWinsC

(***************************************************************************)
(* Exceptions inside the strategies                                        *)
(***************************************************************************)

\* the strategy run as the i-th one raised inside its body
Threw(i) == ran[i][1] \in bdoc.throws

\* C21: a strategy that raises yields an error result and the next strategy
\* in priority order is still run; the cascade ends with either an accepted
\* mapping, which is the result of the strategy run last, or an error value.
C21_ExceptionsCaught ==
  /\ \A i \in 1..Len(ran) :
       Threw(i) =>
         /\ HasError(ran[i][2])
         /\ i < 3 => (Len(ran) > i \/ pc = << "strategy_b", "strategy_c" >>[i])
  /\ EngineReturned =>
       \/ HasError(brokerage_data)
       \/ /\ brokerage_data = ran[Len(ran)][2]
          /\ Accepted(brokerage_data)

\* the first two strategies raised and the third one's mapping was returned
C21_Witness ==
  /\ EngineReturned
  /\ Len(ran) = 3
  /\ Threw(1) /\ Threw(2) /\ ~Threw(3)
  /\ ran[1][2] = Err("Text extraction failed")
  /\ ran[2][2] = Err("Coordinate extraction failed")
  /\ ~HasError(brokerage_data)
  /\ brokerage_data = ran[3][2]

(***************************************************************************)
(* The narrative patterns                                                  *)
(***************************************************************************)
\* the pattern of the set matches somewhere in the text
PatternMatches(text, pattern_name, product) ==
  Search(text, narrative_patterns(pattern_name, product)) # 0

\* the pair the first match of the pattern gives
EntryOf(text, pattern_name, product) ==
  LET pattern == narrative_patterns(pattern_name, product)
  IN ProductEntry(pattern_name, Groups(text, Search(text, pattern), pattern_name, pattern))

\* the passes over one product: its primary pattern comes first
PassOf(pattern_name, product) ==
  CHOOSE k \in 1..Len(PressOrder) : PressOrder[k] = << pattern_name, product >>

\* parse_press_release has just returned a mapping of products
NarrativeResult == pc = "check" /\ ~HasError(press_release_data)

\* C22: for each product the primary pattern is tried before the backup
\* pattern; the first of the two that matches gives the product's pair; a
\* pair set by a pass is kept by every later pass; and the backup pattern
\* gives the pair only when the primary pattern did not match.
C22_PrimaryBeforeBackup ==
  NarrativeResult =>
    LET text == pdoc.text
        trace == PressTrace(text, Len(PressOrder))
        after == [k \in 0..Len(PressOrder) |-> trace[k + 1]]
    IN \A i \in 1..Len(Products) :
         LET product == Products[i]
             primary == PatternMatches(text, "primary", product)
             backup == PatternMatches(text, "backup", product)
         IN /\ PassOf("primary", product) < PassOf("backup", product)
            /\ primary =>
                 /\ product \in DOMAIN press_release_data
                 /\ press_release_data[product] = EntryOf(text, "primary", product)
            /\ (~primary /\ backup) =>
                 /\ product \in DOMAIN press_release_data
                 /\ press_release_data[product] = EntryOf(text, "backup", product)
            /\ (~primary /\ ~backup) => product \notin DOMAIN press_release_data
            /\ \A k \in 1..Len(PressOrder) :
                 product \in DOMAIN after[k - 1] =>
                   /\ product \in DOMAIN after[k]
                   /\ after[k][product] = after[k - 1][product]

\* futures are reported in both phrasings with different figures, and the
\* figures of the primary phrasing were returned
C22_Witness ==
  /\ NarrativeResult
  /\ PatternMatches(pdoc.text, "primary", "Futures")
  /\ PatternMatches(pdoc.text, "backup", "Futures")
  /\ EntryOf(pdoc.text, "primary", "Futures") # EntryOf(pdoc.text, "backup", "Futures")
  /\ press_release_data["Futures"] = << << "3", ".", "2" >>, << "4", ".", "1" >> >>

\* the text holds the phrase "Stocks 1,200,000 shares $0.85" and no stocks
\* phrase before it
StocksPhrase ==
  << << "S", "t", "o", "c", "k", "s" >>,
     << "1", ",", "2", "0", "0", ",", "0", "0", "0" >>,
     << "s", "h", "a", "r", "e", "s" >>,
     << "$", "0", ".", "8", "5" >> >>

HasStocksPhrase(text) ==
  \E i \in 1..Len(text) :
    /\ i + 3 <= Len(text)
    /\ \A k \in 1..4 : text[i + k - 1].tok = StocksPhrase[k]
    /\ \A k \in 1..3 : text[i + k - 1].sep = << " " >>
    /\ \A j \in 1..(i - 1) : ~MatchAt(text, j, narrative_patterns("primary", "Stocks"))

StocksPair == << << "1", "2", "0", "0", "0", "0", "0" >>, << "0", ".", "8", "5" >> >>

\* C23 (as claimed): on a text with the phrase, the primary pattern does not
\* match and the backup pattern gives Stocks the pair ("1200000", "0.85").
C23_StocksViaBackup ==
  (NarrativeResult /\ HasStocksPhrase(pdoc.text)) =>
    /\ ~PatternMatches(pdoc.text, "primary", "Stocks")
    /\ PatternMatches(pdoc.text, "backup", "Stocks")
    /\ Get(press_release_data, "Stocks") = StocksPair

\* C23 (amended): on a text with the phrase, the primary pattern matches
\* it and gives Stocks the pair ("1200000", "0.85") in the primary pass;
\* the backup pattern, which matches the phrase too, is not consulted.
C23_StocksViaPrimary ==
  (NarrativeResult /\ HasStocksPhrase(pdoc.text)) =>
    /\ PatternMatches(pdoc.text, "primary", "Stocks")
    /\ PatternMatches(pdoc.text, "backup", "Stocks")
    /\ Get(PressLoop(pdoc.text, PassOf("primary", "Stocks")), "Stocks") = StocksPair
    /\ Get(press_release_data, "Stocks") = StocksPair

\* the narrative engine has returned the pair for a text with the phrase
C23_Witness ==
  /\ NarrativeResult
  /\ HasStocksPhrase(pdoc.text)
  /\ press_release_data["Stocks"] = StocksPair

(***************************************************************************)
(* The missing list                                                        *)
(***************************************************************************)
\* the value the engine named by the Source Mapping Table holds for a column
SourceValue(csv_header) ==
  LET config == MAPPING_CONFIG[csv_header] IN
  IF config.source = "monthly_brokerage"
    THEN IF config.name \in DOMAIN brokerage_data THEN brokerage_data[config.name] ELSE << >>
  ELSE IF HasError(press_release_data) \/ config.name \notin DOMAIN press_release_data
    THEN << >>
  ELSE press_release_data[config.name][IF config.sub = "Average Order Size" THEN 1 ELSE 2]

\* the column is named in a missing list
Listed(list, csv_header) ==
  \E i \in 1..Len(list) : list[i] = MissingEntry(csv_header)

\* the mapping pass is about to run on a tabular result that is no error
MapperStarts == pc = "check" /\ ~HasError(brokerage_data)

\* the step of the mapper from the results of the two engines
MapperStep ==
  /\ pc' = "emit"
  /\ ret' = ret
  /\ \A h \in Columns :
       /\ h # "ACCOUNTLEVEL.CASH" => final_mapped_data'[h] = SourceValue(h)
       /\ SourceValue(h) = << >> <=> Listed(missing_data', h)
       /\ (SourceValue(h) = << >> /\ h # "ACCOUNTLEVEL.CASH") => final_mapped_data'[h] = << >>
  /\ Len(missing_data') = Cardinality({ h \in Columns : SourceValue(h) = << >> })

\* C24: the mapping pass gives each field the value of the engine the Source
\* Mapping Table names (the derived cash field apart, which the next step
\* may set); a field without a source value is left empty and listed as
\* missing, a field with a value is not listed, and the pass goes on to the
\* emitter however many fields are missing.
C24_DirectMapping == [][MapperStarts => MapperStep]_vars

\* the mapper has run with some fields missing and others not
C24_Witness ==
  /\ pc = "emit"
  /\ Len(missing_data) > 0
  /\ Listed(missing_data, "AVGORDER.FUTURES")
  /\ final_mapped_data["AVGORDER.FUTURES"] = << >>
  /\ ~Listed(missing_data, "AVGORDER.STOCK")
  /\ final_mapped_data["AVGORDER.STOCK"] # << >>
  /\ \E h \in Columns : MAPPING_CONFIG[h].source = "monthly_brokerage"
                        /\ Listed(missing_data, h)

\* the mapper has finished
MapperDone == pc \in { "emit", "done" } /\ DOMAIN final_mapped_data = Columns

\* C25 (as claimed): once the mapper has finished, a field is named in the
\* missing list if and only if it is empty in the record.
C25_MissingIffEmpty ==
  MapperDone =>
    \A h \in Columns : Listed(missing_data, h) <=> final_mapped_data[h] = << >>

\* C25 (amended): once the mapper has finished, every field that is empty in
\* the record is named in the missing list, and every field named there is
\* empty in the record except the derived cash field, which is named there
\* whenever the tabular engine gave no value for it, also when the derived
\* computation has filled it.
C25_MissingIffNoSource ==
  MapperDone =>
    \A h \in Columns :
      /\ final_mapped_data[h] = << >> => Listed(missing_data, h)
      /\ (Listed(missing_data, h) /\ h # "ACCOUNTLEVEL.CASH") => final_mapped_data[h] = << >>
      /\ Listed(missing_data, h) <=>
           MappedValue(h, brokerage_data, press_release_data) = << >>

\* the cash field was not extracted, is listed as missing, and holds the
\* computed percentage in the record
C25_Witness ==
  /\ MapperDone
  /\ "Cash as % of Assets" \notin DOMAIN brokerage_data
  /\ Listed(missing_data, "ACCOUNTLEVEL.CASH")
  /\ final_mapped_data["ACCOUNTLEVEL.CASH"] # << >>
  /\ \E h \in Columns : h # "ACCOUNTLEVEL.CASH" /\ Listed(missing_data, h)
                        /\ final_mapped_data[h] = << >>

(***************************************************************************)
(* One strategy, one result                                                *)
(***************************************************************************)
\* what the strategy of the given name extracts from the document by itself
OwnResult(strategy) ==
  CASE strategy = "A" -> ResultA
    [] strategy = "B" -> ResultB
    [] strategy = "C" -> ResultC

\* C26: a mapping returned by the tabular engine is the mapping that the
\* strategy run last extracted by itself; it holds no metric and no value
\* of a strategy run before it.
C26_OneStrategyOnly ==
  (EngineReturned /\ ~HasError(brokerage_data)) =>
    /\ brokerage_data = OwnResult(ran[Len(ran)][1])
    /\ \A i \in 1..Len(ran) : ran[i][2] = OwnResult(ran[i][1])

\* an insufficient strategy had found metrics, and the mapping returned by a
\* later strategy lacks one of them or holds another value for it
C26_Witness ==
  /\ EngineReturned /\ ~HasError(brokerage_data)
  /\ Len(ran) >= 2
  /\ ~HasError(ran[1][2])
  /\ Cardinality(DOMAIN ran[1][2]) \in 1..(MinMetrics - 1)
  /\ \E m \in DOMAIN ran[1][2] :
       m \notin DOMAIN brokerage_data \/ brokerage_data[m] # ran[1][2][m]

(***************************************************************************)
(* Properties of the batch scan                                            *)
(***************************************************************************)
ScanDone == scan_pc = "done"

\* C27 (as claimed): at the end of a scan every pair processed with success
\* has its own output artifact, holding the record of that pair.
C27_OwnArtifact ==
  ScanDone =>
    \A i \in 1..Len(handed) :
      handed[i][3] =>
        /\ handed[i][2] \in DOMAIN outputs
        /\ outputs[handed[i][2]] = [dir |-> handed[i][1], date_prefix |-> handed[i][2]]

\* the directory holds a file of the report type for the prefix whose name
\* matches the naming pattern
HasReport(dir, prefix, report_type) ==
  \E f \in tree[dir] :
    /\ NameMatch(f) # << >>
    /\ NameMatch(f)[1] = prefix
    /\ LowerStr(NameMatch(f)[2]) = LowerStr(report_type)

\* the number of calls of process_pdf_pair for the prefix in the directory
TimesHanded(dir, prefix) ==
  Cardinality({ i \in 1..Len(handed) : handed[i][1] = dir /\ handed[i][2] = prefix })

ScanPrefixes == { f.digits : f \in ScanNames }

\* C28 (as claimed): in a scan a prefix in a directory is handed to
\* process_pdf_pair exactly once if files of both report types matching the
\* naming pattern exist for it there, and never otherwise.
C28_HandedExactlyOnce ==
  ScanDone =>
    \A dir \in DOMAIN tree : \A prefix \in ScanPrefixes :
      TimesHanded(dir, prefix) =
        IF /\ HasReport(dir, prefix, MonthlyBrokerageData)
           /\ HasReport(dir, prefix, MetricsPressRelease)
        THEN 1 ELSE 0

\* what holds of the calls of a scan: none for a prefix that lacks a report
\* type in the directory, and none twice
ScanCallsSound ==
  \A dir \in DOMAIN tree : \A prefix \in ScanPrefixes :
    /\ TimesHanded(dir, prefix) <= 1
    /\ TimesHanded(dir, prefix) = 1 =>
         /\ HasReport(dir, prefix, MonthlyBrokerageData)
         /\ HasReport(dir, prefix, MetricsPressRelease)

(***************************************************************************)
(* Claims about the orchestrator                                           *)
(***************************************************************************)
\* the order of the steps in run_full_workflow, as the claim states it
FullOrder ==
  << "check_dependencies", "check_required_files", "download_pdfs",
     "check_downloaded_pdfs", "process_pdfs", "check_output_files",
     "cleanup_old_files" >>

\* the steps whose failure ends run_full_workflow
Gating == 5

\* the steps run so far are the first steps of the fixed order
InFixedOrder ==
  /\ Len(steps) <= Len(FullOrder)
  /\ \A i \in 1..Len(steps) : steps[i][1] = FullOrder[i]

\* the i-th step run is one of the first five and returned failure
FailedAt(i) == i \in 1..Len(steps) /\ i <= Gating /\ ~steps[i][2]

\* C29: in run_full_workflow the steps run in the fixed order dependency
\* check, required-file check, download, download verification, processing,
\* output check, cleanup; when one of the first five returns failure the
\* workflow returns False at once and no later step is run; it returns
\* False for no other reason and True only after the cleanup.
C29_FixedOrderStopsOnFailure ==
  mode = "full" =>
    /\ InFixedOrder
    /\ \A i \in 1..Len(steps) :
         FailedAt(i) => /\ i = Len(steps)
                        /\ orc_pc = "done"
                        /\ orc_ret = "False"
    /\ orc_ret = "False" => FailedAt(Len(steps))
    /\ orc_ret = "True" => Len(steps) = Len(FullOrder)
    /\ orc_ret = "none" => orc_pc = FullOrder[Len(steps) + 1]

\* a full workflow whose download verification fails after three good steps
\* has returned False without processing and without cleanup
C29_Witness ==
  /\ mode = "full"
  /\ orc_pc = "done"
  /\ orc_ret = "False"
  /\ Len(steps) = 4
  /\ steps[4] = << "check_downloaded_pdfs", FALSE >>
  /\ steps[3] = << "download_pdfs", TRUE >>
  /\ pairs_ok = 0

\* a workflow with the processing step has returned True
ReportsSuccess ==
  /\ mode \in { "full", "process_only" }
  /\ orc_pc = "done"
  /\ orc_ret = "True"

\* C30: run_full_workflow or run_process_only returns True only if at least
\* one pair was processed with success and an IBKR_DATA_OUTPUT_*.csv
\* artifact is in the working directory.
C30_SuccessMeansOutput ==
  ReportsSuccess => (pairs_ok >= 1 /\ artifacts)

====
